---- MODULE Spec2Model ----
(***************************************************************************)
(* Model of the nmapUI ingestion core: the three parsers' derived fields,  *)
(* the aggregator (computePortSummaries / computeServiceSummaries), the    *)
(* store's setScan / mergeScan, and the query engine's array handling.     *)
(*                                                                         *)
(* Text is modelled after tokenisation: an XML document is the sequence of *)
(* its <host> nodes, a greppable file the sequence of its "Host:" lines,   *)
(* a normal report the sequence of its lines, each already split into the  *)
(* fields the parser's regular expressions capture.                        *)
(***************************************************************************)
EXTENDS Integers, Sequences, FiniteSets, TLC

VARIABLES
    scan,       \* state.scan of useAppStore (NullScan while no file is loaded)
    incoming,   \* the NmapScan handed to the last setScan / mergeScan call
    handedIn,   \* that NmapScan object as the call left it
    lastOp,     \* the store operation that produced this state
    nextId,     \* source of generateId(): ids handed out so far
    merges,     \* number of mergeScan calls since the last setScan
    heap,       \* query engine: the arrays alive, by reference
    callerRef,  \* query engine: the reference the caller passed in
    resultRef,  \* query engine: the reference the last call returned
    lastQuery,  \* query engine: the last call made
    queryArg,   \* query engine: the rule group, query and sort list of that call
    content,    \* format detection: the text handed to parseNmapOutput
    outcome,    \* format detection: what parseNmapOutput did with it
    viewMode,           \* state.viewMode
    previousViewMode,   \* state.previousViewMode ("null" for null)
    showNoteEditor,     \* state.showNoteEditor
    editingNoteId,      \* state.editingNoteId ("null" for null)
    notes,              \* state.notes
    fileName,           \* state.fileName
    scanStart,          \* state.scan.start
    notesInitialized,   \* notesInitialized.current
    skipAutoLoad,       \* skipAutoLoad.current
    timer,              \* the timeout createDebouncedSave holds, with its closure
    savedNotes,         \* the notes store of IndexedDB, by project id
    loads,              \* loadNotes calls not yet resolved, by project id
    openedFrom,         \* the view that was active when the note editor was opened
    latestNotes,        \* by project id, the notes after their last change
    lastUi              \* the store operation that produced this state

storeVars == <<scan, incoming, handedIn, lastOp, nextId, merges>>
queryVars == <<heap, callerRef, resultRef, lastQuery, queryArg>>
detectVars == <<content, outcome>>
uiVars == <<viewMode, previousViewMode, showNoteEditor, editingNoteId, notes, fileName, scanStart,
            notesInitialized, skipAutoLoad, timer, savedNotes, loads, openedFrom,
            latestNotes, lastUi>>

vars == <<storeVars, queryVars, detectVars, uiVars>>

(***************************************************************************)
(* Bounds of the model.                                                    *)
(***************************************************************************)
MaxHosts == 2      \* hosts (XML), Host: lines (greppable), reports (normal) per file
MaxPorts == 1      \* ports per parsed host
MaxMerges == 2     \* mergeScan calls after one setScan
MaxIds == 3        \* generateId() calls in one session
MaxRules == 2      \* rules per filter group
MaxSorts == 2      \* keys per sort list
MaxArrays == 3     \* arrays alive in one query session
MaxRows == 3       \* hosts in the table that is sorted
MaxLines == 5      \* lines of a normal report parsed on its own

(***************************************************************************)
(* Generic helpers.                                                        *)
(***************************************************************************)
Count(s, P(_)) == Cardinality({i \in DOMAIN s : P(s[i])})

SeqsUpTo(S, n) == UNION {[1..k -> S] : k \in 0..n}

\* first index of s whose element satisfies P, 0 if none (Array.findIndex + 1)
FindIndex(s, P(_)) ==
    IF \E i \in DOMAIN s : P(s[i])
    THEN CHOOSE i \in DOMAIN s : P(s[i]) /\ \A j \in 1..(i-1) : ~P(s[j])
    ELSE 0

\* Array.prototype.sort with a comparator derived from integer keys is stable:
\* element i lands after every element with a smaller key and after every
\* earlier element with the same key.
StableSortByKey(s, key) ==
    LET pos(i) == 1 + Cardinality({j \in DOMAIN s :
                        key[j] < key[i] \/ (key[j] = key[i] /\ j < i)})
    IN  [p \in DOMAIN s |-> s[CHOOSE i \in DOMAIN s : pos(i) = p]]

RECURSIVE Flatten(_)
Flatten(ss) == IF ss = <<>> THEN <<>> ELSE Head(ss) \o Flatten(Tail(ss))

(***************************************************************************)
(* Data model (types/nmap.ts).                                             *)
(***************************************************************************)
NoService == [present |-> FALSE, name |-> "", product |-> "", version |-> "", conf |-> 0]

NullScan ==
    [isNull |-> TRUE, hosts |-> <<>>, totalHosts |-> 0, hostsUp |-> 0,
     hostsDown |-> 0, hostsFiltered |-> 0, uniquePorts |-> <<>>,
     uniqueServices |-> <<>>]

\* host.ip || host.ipv6
hostAddr(h) == IF h.ip # "" THEN h.ip ELSE h.ipv6

\* `${p.portid}/${p.protocol}`
portKey(p) == <<p.portid, p.protocol>>

openCount(ports) == Count(ports, LAMBDA p : p.state.state = "open")
closedCount(ports) == Count(ports, LAMBDA p : p.state.state = "closed")
filteredCount(ports) ==
    Count(ports, LAMBDA p : p.state.state = "filtered" \/ p.state.state = "open|filtered")
filteredOnlyCount(ports) == Count(ports, LAMBDA p : p.state.state = "filtered")

(***************************************************************************)
(* Aggregator (nmapParser.ts, "Aggregation helpers").                      *)
(***************************************************************************)
\* the (host, port) pairs in the order the two nested for-loops visit them
portOccurrences(hosts) ==
    Flatten([i \in DOMAIN hosts |->
        [j \in DOMAIN hosts[i].ports |->
            [addr |-> hostAddr(hosts[i]), port |-> hosts[i].ports[j]]]])

\* `${port.portid}/${port.protocol}/${port.state.state}`
summaryKey(p) == <<p.portid, p.protocol, p.state.state>>

\* one iteration of the inner loop: map.get(key) then count++ / map.set
portSummaryPutWrongKey(map, occ) ==
    LET p == occ.port
        idx == FindIndex(map, LAMBDA e : <<e.port, e.protocol>> = portKey(p))
    IN  IF idx > 0
        THEN [map EXCEPT ![idx].count = @ + 1, ![idx].hosts = Append(@, occ.addr)]
        ELSE Append(map, [port |-> p.portid, protocol |-> p.protocol,
                          state |-> p.state.state,
                          service |-> p.service.name, product |-> p.service.product,
                          count |-> 1, hosts |-> <<occ.addr>>])

portSummaryPut(map, occ) ==
    LET p == occ.port
        idx == FindIndex(map, LAMBDA e : <<e.port, e.protocol, e.state>> = summaryKey(p))
    IN  IF idx > 0
        THEN [map EXCEPT ![idx].count = @ + 1, ![idx].hosts = Append(@, occ.addr)]
        ELSE Append(map, [port |-> p.portid, protocol |-> p.protocol,
                          state |-> p.state.state,
                          service |-> p.service.name, product |-> p.service.product,
                          count |-> 1, hosts |-> <<occ.addr>>])

RECURSIVE portSummaryFold(_, _)
portSummaryFold(map, occs) ==
    IF occs = <<>> THEN map
    ELSE portSummaryFold(portSummaryPut(map, Head(occs)), Tail(occs))

\* Array.from(map.values()).sort((a, b) => a.port - b.port)
computePortSummaries(hosts) ==
    LET entries == portSummaryFold(<<>>, portOccurrences(hosts))
    IN  StableSortByKey(entries, [i \in DOMAIN entries |-> entries[i].port])

\* String.prototype.localeCompare on the service names of the model:
\* the rank of a name in alphabetical order
NameOrder == <<"", "http", "ssh">>
nameRank(n) == CHOOSE i \in DOMAIN NameOrder : NameOrder[i] = n

\* `${name}/${product || ''}/${version || ''}`
serviceKey(sv) == <<sv.name, sv.product, sv.version>>

AppendIfAbsent(s, x) == IF \E i \in DOMAIN s : s[i] = x THEN s ELSE Append(s, x)

serviceSummaryPut(map, occ) ==
    LET p == occ.port
        idx == FindIndex(map, LAMBDA e : <<e.name, e.product, e.version>> = serviceKey(p.service))
    IN  IF p.service.name = "" THEN map
        ELSE IF idx > 0
        THEN [map EXCEPT ![idx].count = @ + 1,
                         ![idx].ports = AppendIfAbsent(@, p.portid),
                         ![idx].hosts = AppendIfAbsent(@, occ.addr)]
        ELSE Append(map, [name |-> p.service.name, product |-> p.service.product,
                          version |-> p.service.version, count |-> 1,
                          ports |-> <<p.portid>>, hosts |-> <<occ.addr>>])

RECURSIVE serviceSummaryFold(_, _)
serviceSummaryFold(map, occs) ==
    IF occs = <<>> THEN map
    ELSE serviceSummaryFold(serviceSummaryPut(map, Head(occs)), Tail(occs))

\* Array.from(map.values()).sort((a, b) => a.name.localeCompare(b.name))
computeServiceSummaries(hosts) ==
    LET entries == serviceSummaryFold(<<>>, portOccurrences(hosts))
    IN  StableSortByKey(entries, [i \in DOMAIN entries |-> nameRank(entries[i].name)])

(***************************************************************************)
(* Structured (XML) parser.  A raw node carries `present` where the        *)
(* element may be missing from the document.                               *)
(***************************************************************************)
\* parsePortState: a missing <state> degrades to 'unknown'
parsePortState(raw) ==
    IF ~raw.present THEN [state |-> "unknown", reason |-> ""]
    ELSE [state |-> raw.state, reason |-> raw.reason]

\* parseService: a missing <service> is null
parseService(raw) ==
    IF ~raw.present THEN NoService
    ELSE [present |-> TRUE, name |-> raw.name, product |-> raw.product,
          version |-> raw.version, conf |-> raw.conf]

\* parseScripts: scripts without an id are dropped
parseScripts(raw) == SelectSeq(raw, LAMBDA s : s.id # "")

parsePorts(raw) ==
    [i \in DOMAIN raw |->
        [protocol |-> raw[i].protocol, portid |-> raw[i].portid,
         state |-> parsePortState(raw[i].state),
         service |-> parseService(raw[i].service),
         scripts |-> parseScripts(raw[i].script)]]

\* parseHostStatus: a missing <status> degrades to 'unknown'
parseHostStatus(raw) ==
    IF ~raw.present THEN [state |-> "unknown"] ELSE [state |-> raw.state]

\* addresses.find(a => a.addrtype === t)?.addr || ''
firstAddr(addresses, t) ==
    LET idx == FindIndex(addresses, LAMBDA a : a.addrtype = t)
    IN  IF idx > 0 THEN addresses[idx].addr ELSE ""

parseHost(raw, id) ==
    LET ports == parsePorts(raw.ports)
    IN  [id |-> id,
         status |-> parseHostStatus(raw.status),
         ports |-> ports,
         hostscripts |-> parseScripts(raw.hostscript),
         ip |-> firstAddr(raw.address, "ipv4"),
         ipv6 |-> firstAddr(raw.address, "ipv6"),
         hostname |-> "",    \* hostnames[0].name: the documents hold no <hostnames>
         openPortCount |-> openCount(ports),
         closedPortCount |-> closedCount(ports),
         filteredPortCount |-> filteredCount(ports)]

\* generateId() is called once per host, in document order: host i of a
\* parse that starts with `id0` ids handed out gets id0 + i
parseHosts(rawHosts, id0) == [i \in DOMAIN rawHosts |-> parseHost(rawHosts[i], id0 + i)]

hostsWithStatus(hosts, st) == Count(hosts, LAMBDA h : h.status.state = st)
hostsOtherStatus(hosts) ==
    Count(hosts, LAMBDA h : h.status.state # "up" /\ h.status.state # "down")

parseNmapXML(doc, id0) ==
    LET hosts == parseHosts(doc, id0)
    IN  [isNull |-> FALSE, hosts |-> hosts,
         totalHosts |-> Len(hosts),
         hostsUp |-> hostsWithStatus(hosts, "up"),
         hostsDown |-> hostsWithStatus(hosts, "down"),
         hostsFiltered |-> hostsOtherStatus(hosts),
         uniquePorts |-> computePortSummaries(hosts),
         uniqueServices |-> computeServiceSummaries(hosts)]

(***************************************************************************)
(* Greppable parser.  A line is a "Host:" line split into the captures of  *)
(* the host regex, the "Status: Up" test and the slash-delimited port      *)
(* entries, each with the number of its fields (`parts`).                  *)
(***************************************************************************)
greppablePort(e) ==
    [protocol |-> IF e.protocol = "" THEN "tcp" ELSE e.protocol,
     portid |-> e.portid,
     state |-> [state |-> IF e.state = "" THEN "unknown" ELSE e.state, reason |-> ""],
     service |-> [present |-> TRUE, name |-> e.service, product |-> e.version,
                  version |-> "", conf |-> 0],
     scripts |-> <<>>]

\* the entries that become ports: parts.length >= 7
greppableEntries(line) == SelectSeq(line.ports, LAMBDA e : e.parts >= 7)

\* the status taken from the "Status:" token alone
parseGreppableLineStatusOnly(line, id) ==
    LET entries == greppableEntries(line)
        ports == [i \in DOMAIN entries |-> greppablePort(entries[i])]
    IN  [id |-> id,
         status |-> [state |-> IF line.statusUp THEN "up" ELSE "down"],
         ports |-> ports,
         hostscripts |-> <<>>,
         ip |-> line.ip,
         ipv6 |-> "",
         hostname |-> line.hostname,
         openPortCount |-> openCount(ports),
         closedPortCount |-> closedCount(ports),
         filteredPortCount |-> filteredOnlyCount(ports)]

parseGreppableLine(line, id) ==
    LET entries == greppableEntries(line)
        ports == [i \in DOMAIN entries |-> greppablePort(entries[i])]
        hasOpenPorts == \E i \in DOMAIN ports : ports[i].state.state = "open"
        statusState == IF line.statusUp \/ hasOpenPorts THEN "up" ELSE "down"
    IN  [id |-> id,
         status |-> [state |-> statusState],
         ports |-> ports,
         hostscripts |-> <<>>,
         ip |-> line.ip,
         ipv6 |-> "",
         hostname |-> line.hostname,
         openPortCount |-> openCount(ports),
         closedPortCount |-> closedCount(ports),
         filteredPortCount |-> filteredOnlyCount(ports)]

parseNmapGreppable(doc, id0) ==
    LET hosts == [i \in DOMAIN doc |-> parseGreppableLine(doc[i], id0 + i)]
    IN  [isNull |-> FALSE, hosts |-> hosts,
         totalHosts |-> Len(hosts),
         hostsUp |-> hostsWithStatus(hosts, "up"),
         hostsDown |-> 0,
         hostsFiltered |-> 0,
         uniquePorts |-> computePortSummaries(hosts),
         uniqueServices |-> computeServiceSummaries(hosts)]

(***************************************************************************)
(* Normal (-oN) parser: a line-oriented state machine.  A line is tagged   *)
(* with the pattern it matches: "report" (Nmap scan report for ...),       *)
(* "status" (Host is up/down), "header" (PORT STATE SERVICE), "port" (the  *)
(* port-line grammar), "blank", "script" (starts with '|') or "other".     *)
(***************************************************************************)
NoCurrentHost == [active |-> FALSE, ip |-> "", status |-> "", ports |-> <<>>]

normalPort(line) ==
    [protocol |-> line.protocol, portid |-> line.portid,
     state |-> [state |-> line.state, reason |-> ""],
     service |-> [present |-> TRUE, name |-> line.service, product |-> "",
                  version |-> "", conf |-> 0],
     scripts |-> <<>>]

buildNormalHost(h, id) ==
    [id |-> id,
     status |-> [state |-> h.status],
     ports |-> h.ports,
     hostscripts |-> <<>>,
     ip |-> h.ip,
     ipv6 |-> "",
     hostname |-> "",    \* the report lines name the host by address only
     openPortCount |-> openCount(h.ports),
     closedPortCount |-> closedCount(h.ports),
     filteredPortCount |-> filteredCount(h.ports)]

\* the hosts pushed so far, with the host a flush of `cur` adds
flushHost(st, id0) ==
    IF st.cur.active
    THEN Append(st.hosts, buildNormalHost(st.cur, id0 + Len(st.hosts) + 1))
    ELSE st.hosts

\* the port table left open by a report line
normalLineKeepsTable(st, line, id0) ==
    IF line.kind = "report"
    THEN [hosts |-> flushHost(st, id0),
          cur |-> [active |-> TRUE, ip |-> line.ip, status |-> "up", ports |-> <<>>],
          inPortTable |-> st.inPortTable]
    ELSE IF line.kind = "status" /\ st.cur.active
    THEN [st EXCEPT !.cur.status = line.status]
    ELSE IF line.kind = "header"
    THEN [st EXCEPT !.inPortTable = TRUE]
    ELSE IF st.inPortTable /\ st.cur.active
    THEN IF line.kind = "port"
         THEN [st EXCEPT !.cur.ports = Append(@, normalPort(line))]
         ELSE IF line.kind # "blank" /\ line.kind # "script"
         THEN [st EXCEPT !.inPortTable = FALSE]
         ELSE st
    ELSE st

\* one iteration of the for-loop over lines
normalLine(st, line, id0) ==
    IF line.kind = "report"
    THEN [hosts |-> flushHost(st, id0),
          cur |-> [active |-> TRUE, ip |-> line.ip, status |-> "up", ports |-> <<>>],
          inPortTable |-> FALSE]
    ELSE IF line.kind = "status" /\ st.cur.active
    THEN [st EXCEPT !.cur.status = line.status]
    ELSE IF line.kind = "header"
    THEN [st EXCEPT !.inPortTable = TRUE]
    ELSE IF st.inPortTable /\ st.cur.active
    THEN IF line.kind = "port"
         THEN [st EXCEPT !.cur.ports = Append(@, normalPort(line))]
         ELSE IF line.kind # "blank" /\ line.kind # "script"
         THEN [st EXCEPT !.inPortTable = FALSE]
         ELSE st
    ELSE st

RECURSIVE normalLines(_, _, _)
normalLines(st, lines, id0) ==
    IF lines = <<>> THEN st
    ELSE normalLines(normalLine(st, Head(lines), id0), Tail(lines), id0)

parseNmapNormal(lines, id0) ==
    LET st == normalLines([hosts |-> <<>>, cur |-> NoCurrentHost, inPortTable |-> FALSE],
                          lines, id0)
        hosts == flushHost(st, id0)
    IN  [isNull |-> FALSE, hosts |-> hosts,
         totalHosts |-> Len(hosts),
         hostsUp |-> hostsWithStatus(hosts, "up"),
         hostsDown |-> hostsWithStatus(hosts, "down"),
         hostsFiltered |-> 0,
         uniquePorts |-> computePortSummaries(hosts),
         uniqueServices |-> computeServiceSummaries(hosts)]

(***************************************************************************)
(* Store: mergeScan (useAppStore).                                         *)
(***************************************************************************)
mergePortScriptsAppendOnly(scripts, ids, new) ==
    scripts \o SelectSeq(new, LAMBDA s : s.id \notin ids)

\* for (const script of port.scripts): push an unseen id, overwrite a seen one;
\* `ids` is existingScriptIds, computed once before the loop
RECURSIVE mergePortScripts(_, _, _)
mergePortScripts(scripts, ids, new) ==
    IF new = <<>> THEN scripts
    ELSE LET script == Head(new)
             idx == FindIndex(scripts, LAMBDA s : s.id = script.id)
         IN  mergePortScripts(
                 IF script.id \notin ids THEN Append(scripts, script)
                 ELSE IF idx > 0 THEN [scripts EXCEPT ![idx] = script]
                 ELSE scripts,
                 ids, Tail(new))

\* the service an existing port holds after an incoming port with its key
mergeServiceAlways(existing, new) ==
    IF new.present THEN new ELSE existing

mergeService(existing, new) ==
    IF new.present /\ (~existing.present \/ new.conf > existing.conf)
    THEN new ELSE existing

\* the state replaced only together with the service
mergePortStateGated(existingPort, port) ==
    LET replaced == port.service.present
                    /\ (~existingPort.service.present
                        \/ port.service.conf > existingPort.service.conf)
    IN  [existingPort EXCEPT
            !.scripts = mergePortScripts(@, {@[i].id : i \in DOMAIN @}, port.scripts),
            !.service = mergeService(@, port.service),
            !.state = IF replaced /\ port.state.state # @.state THEN port.state ELSE @]

\* the body of `if (existingPort)`: scripts, then service, then state
mergePort(existingPort, port) ==
    [existingPort EXCEPT
        !.scripts = mergePortScripts(@, {@[i].id : i \in DOMAIN @}, port.scripts),
        !.service = mergeService(@, port.service),
        !.state = IF port.state.state # @.state THEN port.state ELSE @]

mergePortsAlwaysPush(ports, keys, new) == ports \o new

\* for (const port of newHost.ports); `keys` is existingPortKeys, computed
\* once before the loop
RECURSIVE mergePorts(_, _, _)
mergePorts(ports, keys, new) ==
    IF new = <<>> THEN ports
    ELSE LET port == Head(new)
             idx == FindIndex(ports, LAMBDA p : portKey(p) = portKey(port))
         IN  mergePorts(
                 IF portKey(port) \in keys
                 THEN IF idx > 0 THEN [ports EXCEPT ![idx] = mergePort(@, port)] ELSE ports
                 ELSE Append(ports, port),
                 keys, Tail(new))

mergeHostScriptsOverwrite(scripts, new) ==
    mergePortScripts(scripts, {scripts[i].id : i \in DOMAIN scripts}, new)

\* host scripts: an unseen id is pushed, a seen id is left alone
mergeHostScripts(scripts, new) ==
    LET ids == {scripts[i].id : i \in DOMAIN scripts}
    IN  scripts \o SelectSeq(new, LAMBDA s : s.id \notin ids)

mergeHostStaleCounts(existing, newHost) ==
    [existing EXCEPT
        !.ports = mergePorts(@, {portKey(@[i]) : i \in DOMAIN @}, newHost.ports),
        !.hostscripts = mergeHostScripts(@, newHost.hostscripts)]

\* the body of `if (existingIdx >= 0)`
mergeHost(existing, newHost) ==
    LET ports == mergePorts(existing.ports,
                            {portKey(existing.ports[i]) : i \in DOMAIN existing.ports},
                            newHost.ports)
    IN  [existing EXCEPT
            !.ports = ports,
            !.hostscripts = mergeHostScripts(@, newHost.hostscripts),
            !.openPortCount = openCount(ports),
            !.closedPortCount = closedCount(ports),
            !.filteredPortCount = filteredCount(ports)]

mergeHostsAppendAll(hosts, new) == hosts \o new

\* for (const newHost of newScan.hosts)
RECURSIVE mergeHosts(_, _)
mergeHosts(hosts, new) ==
    IF new = <<>> THEN hosts
    ELSE LET newHost == Head(new)
             existingIdx == FindIndex(hosts, LAMBDA h : hostAddr(h) = hostAddr(newHost))
         IN  mergeHosts(
                 IF existingIdx > 0
                 THEN [hosts EXCEPT ![existingIdx] = mergeHost(@, newHost)]
                 ELSE Append(hosts, newHost),
                 Tail(new))

\* the updater passed to setState: the next state.scan
mergeScan(prev, newScan) ==
    IF prev.isNull THEN prev
    ELSE LET hosts == mergeHosts(prev.hosts, newScan.hosts)
         IN  [prev EXCEPT
                !.hosts = hosts,
                !.totalHosts = Len(hosts),
                !.hostsUp = hostsWithStatus(hosts, "up"),
                !.hostsDown = hostsWithStatus(hosts, "down")]

(***************************************************************************)
(* Object identity in mergeScan.  mergedHosts holds clones of the previous *)
(* hosts and of their ports, while merged.hosts.push(newHost) and          *)
(* existing.ports.push(port) store the incoming objects themselves.  An    *)
(* object carries `ref`: 0 for a clone, k for host k of newScan, <<k, j>>  *)
(* for port j of that host.                                                *)
(***************************************************************************)
\* a new array holding the elements of s
Array(s) == SubSeq(s, 1, Len(s))

portObject(p, at) ==
    [protocol |-> p.protocol, portid |-> p.portid, state |-> p.state,
     service |-> p.service, scripts |-> p.scripts, ref |-> at]

portValue(p) ==
    [protocol |-> p.protocol, portid |-> p.portid, state |-> p.state,
     service |-> p.service, scripts |-> p.scripts]

hostObject(h, at, ports) ==
    [id |-> h.id, status |-> h.status, ports |-> ports, hostscripts |-> h.hostscripts,
     ip |-> h.ip, ipv6 |-> h.ipv6, hostname |-> h.hostname,
     openPortCount |-> h.openPortCount, closedPortCount |-> h.closedPortCount,
     filteredPortCount |-> h.filteredPortCount, ref |-> at]

hostValue(h) ==
    [id |-> h.id, status |-> h.status,
     ports |-> [j \in DOMAIN h.ports |-> portValue(h.ports[j])],
     hostscripts |-> h.hostscripts,
     ip |-> h.ip, ipv6 |-> h.ipv6, hostname |-> h.hostname,
     openPortCount |-> h.openPortCount, closedPortCount |-> h.closedPortCount,
     filteredPortCount |-> h.filteredPortCount]

\* prev.scan.hosts.map(h => ({...h, ports: h.ports.map(p => ({...p, ...})), ...}))
clonedHosts(hosts) ==
    Array([i \in DOMAIN hosts |->
        hostObject(hosts[i], 0,
                   Array([j \in DOMAIN hosts[i].ports |->
                            portObject(hosts[i].ports[j], <<0, 0>>)]))])

\* newScan.hosts: the objects the loop reads, and pushes
incomingObjects(hosts) ==
    Array([k \in DOMAIN hosts |->
        hostObject(hosts[k], k,
                   Array([j \in DOMAIN hosts[k].ports |->
                            portObject(hosts[k].ports[j], <<k, j>>)]))])

\* newScan.hosts as mergeScan leaves them: a host that was pushed is the
\* merged host it became, a port that was pushed the merged port it became
hostsAfterMerge(prevHosts, newHosts) ==
    LET merged == mergeHosts(clonedHosts(prevHosts), incomingObjects(newHosts))
        ports == portOccurrences(merged)
        portNow(k, j) ==
            IF \E o \in DOMAIN ports : ports[o].port.ref = <<k, j>>
            THEN portValue(ports[CHOOSE o \in DOMAIN ports : ports[o].port.ref = <<k, j>>].port)
            ELSE newHosts[k].ports[j]
        hostNow(k) ==
            IF \E m \in DOMAIN merged : merged[m].ref = k
            THEN hostValue(merged[CHOOSE m \in DOMAIN merged : merged[m].ref = k])
            ELSE [newHosts[k] EXCEPT !.ports = [j \in DOMAIN @ |-> portNow(k, j)]]
    IN  [k \in DOMAIN newHosts |-> hostNow(k)]

(***************************************************************************)
(* Input files.  A file is a format with its tokenised content.  Two       *)
(* corpora: survey files in all three formats (addresses, host status and  *)
(* port states vary), and detail files, XML scans of one host with         *)
(* service detection and scripts.                                          *)
(***************************************************************************)
XmlHostNodes(addressLists, statusNodes, portNodes, hostScriptLists) ==
    [address : addressLists, status : statusNodes,
     ports : SeqsUpTo(portNodes, MaxPorts), hostscript : hostScriptLists]

XmlService(product, conf) ==
    [present |-> TRUE, name |-> "ssh", product |-> product, version |-> "", conf |-> conf]

XmlState(state, reason) == [present |-> TRUE, state |-> state, reason |-> reason]

SurveyXmlHosts ==
    XmlHostNodes(
        {<<[addr |-> "10.0.0.1", addrtype |-> "ipv4"]>>,
         <<[addr |-> "fe80::1", addrtype |-> "ipv6"], [addr |-> "10.0.0.2", addrtype |-> "ipv4"]>>,
         <<[addr |-> "fe80::1", addrtype |-> "ipv6"]>>},
        {[present |-> TRUE, state |-> "up"], [present |-> FALSE, state |-> ""]},
        [portid : {22}, protocol : {"tcp"},
         state : {XmlState("open", "syn-ack"), XmlState("closed", "reset")},
         service : {XmlService("OpenSSH", 3)}, script : {<<>>}],
        {<<>>})

GreppableLines ==
    [ip : {"10.0.0.1", "10.0.0.2"}, hostname : {""}, statusUp : BOOLEAN,
     ports : SeqsUpTo([portid : {22}, state : {"open", "filtered", "open|filtered"},
                       protocol : {"tcp"}, service : {"ssh"}, version : {""},
                       parts : {7}], MaxPorts)]

Line(kind) ==
    [kind |-> kind, ip |-> "", status |-> "", portid |-> 0, protocol |-> "",
     state |-> "", service |-> ""]

NormalPortLines ==
    {[Line("port") EXCEPT !.portid = 80, !.protocol = "tcp", !.state = st, !.service = "http"]
        : st \in {"open", "open|filtered"}}

\* the lines nmap prints for one host
NormalReports ==
    [ip : {"10.0.0.2"}, status : {"up", "down"}, ports : SeqsUpTo(NormalPortLines, MaxPorts)]

reportLines(r) ==
    <<[Line("report") EXCEPT !.ip = r.ip], [Line("status") EXCEPT !.status = r.status]>>
    \o (IF r.ports = <<>> THEN <<>> ELSE <<Line("header")>> \o r.ports)
    \o <<Line("blank")>>

File(format, doc) == [format |-> format, doc |-> doc]

SurveyFiles ==
    {File("xml", d) : d \in SeqsUpTo(SurveyXmlHosts, MaxHosts)}
    \cup {File("greppable", d) : d \in SeqsUpTo(GreppableLines, MaxHosts)}
    \cup {File("normal", Flatten([i \in DOMAIN rs |-> reportLines(rs[i])]))
            : rs \in SeqsUpTo(NormalReports, MaxHosts)}

DetailXmlHosts ==
    XmlHostNodes(
        {<<[addr |-> "10.0.0.1", addrtype |-> "ipv4"]>>},
        {[present |-> TRUE, state |-> "up"]},
        [portid : {22}, protocol : {"tcp"},
         state : {XmlState("open", "syn-ack"), XmlState("closed", "reset")},
         service : {[present |-> FALSE, name |-> "", product |-> "", version |-> "", conf |-> 0],
                    XmlService("Dropbear", 3)}
                   \cup {XmlService("OpenSSH", c) : c \in {1, 3, 10}},
         script : {<<>>, <<[id |-> "banner", output |-> "v1"]>>,
                   <<[id |-> "banner", output |-> "v2"]>>}],
        {<<>>, <<[id |-> "smb-os", output |-> "w1"]>>})

DetailFiles == {File("xml", d) : d \in SeqsUpTo(DetailXmlHosts, 1)}

\* the number of hosts a file yields: every <host>, every Host: line, every report line
hostsIn(file) ==
    IF file.format = "normal"
    THEN Count(file.doc, LAMBDA l : l.kind = "report")
    ELSE Len(file.doc)

\* parseNmapOutput, after format detection
parseNmapOutput(file, id0) ==
    CASE file.format = "xml" -> parseNmapXML(file.doc, id0)
      [] file.format = "greppable" -> parseNmapGreppable(file.doc, id0)
      [] file.format = "normal" -> parseNmapNormal(file.doc, id0)

(***************************************************************************)
(* Initial values of the parts of the program a specification leaves idle. *)
(***************************************************************************)
\* generateProjectId
generateProjectId(name, start) == <<"proj", name, start>>

\* the files a session opens, with the start time their scan reports
NoteFiles == {[name |-> "a.xml", start |-> 1], [name |-> "b.xml", start |-> 1]}
ProjectIds == {generateProjectId(f.name, f.start) : f \in NoteFiles}

NoProject == <<>>
NoTimer == [armed |-> FALSE, projectId |-> NoProject, notes |-> <<>>]
Unchanged == [changed |-> FALSE, notes |-> <<>>]
NoArg == [group |-> [logic |-> "AND", rules |-> <<>>], query |-> <<>>, sorts |-> <<>>]
NoOutcome == [rule |-> "none", parser |-> "none", threw |-> FALSE, message |-> ""]

StoreIdle ==
    /\ scan = NullScan
    /\ incoming = NullScan
    /\ handedIn = NullScan
    /\ lastOp = "init"
    /\ nextId = 0
    /\ merges = 0

QueryIdle ==
    /\ heap = <<>>
    /\ callerRef = 0
    /\ resultRef = 0
    /\ lastQuery = "none"
    /\ queryArg = NoArg

DetectIdle ==
    /\ content = <<>>
    /\ outcome = NoOutcome

\* initialState and the refs of useAppStore, over an empty IndexedDB
UiIdle ==
    /\ viewMode = "dashboard"
    /\ previousViewMode = "null"
    /\ showNoteEditor = FALSE
    /\ editingNoteId = "null"
    /\ notes = <<>>
    /\ fileName = ""
    /\ scanStart = 0
    /\ notesInitialized = FALSE
    /\ skipAutoLoad = FALSE
    /\ timer = NoTimer
    /\ savedNotes = [p \in ProjectIds |-> <<>>]
    /\ loads = {}
    /\ openedFrom = "null"
    /\ latestNotes = [p \in ProjectIds |-> Unchanged]
    /\ lastUi = "init"

(***************************************************************************)
(* The store as a state machine.                                           *)
(***************************************************************************)
Init ==
    /\ scan = NullScan
    /\ incoming = NullScan
    /\ handedIn = NullScan
    /\ lastOp = "init"
    /\ nextId = 0
    /\ merges = 0
    /\ QueryIdle
    /\ DetectIdle
    /\ UiIdle

\* App.loadProjectContent: parse the opened file, then store.setScan.
\* The session opens one file; every later file is merged into it.
LoadFile(files) ==
    /\ scan.isNull
    /\ \E file \in files :
        /\ nextId + hostsIn(file) <= MaxIds
        /\ LET parsed == parseNmapOutput(file, nextId)
           IN  /\ scan' = parsed
               /\ incoming' = parsed
               /\ handedIn' = parsed
               /\ nextId' = nextId + Len(parsed.hosts)
    /\ lastOp' = "setScan"
    /\ merges' = 0
    /\ UNCHANGED <<queryVars, detectVars, uiVars>>

\* MergeDialog.handleFile: parse the chosen file, then store.mergeScan.
\* The dialog is only rendered while a scan is loaded.
MergeFile(files) ==
    /\ ~scan.isNull
    /\ merges < MaxMerges
    /\ \E file \in files :
        /\ nextId + hostsIn(file) <= MaxIds
        /\ LET parsed == parseNmapOutput(file, nextId)
           IN  /\ scan' = mergeScan(scan, parsed)
               /\ incoming' = parsed
               /\ handedIn' = [parsed EXCEPT !.hosts = hostsAfterMerge(scan.hosts, @)]
               /\ nextId' = nextId + Len(parsed.hosts)
    /\ lastOp' = "mergeScan"
    /\ merges' = merges + 1
    /\ UNCHANGED <<queryVars, detectVars, uiVars>>

\* store.mergeScan(state.scan): the current scan merged into itself
MergeCurrent ==
    /\ ~scan.isNull
    /\ merges < MaxMerges
    /\ scan' = mergeScan(scan, scan)
    /\ incoming' = scan
    /\ handedIn' = [scan EXCEPT !.hosts = hostsAfterMerge(@, @)]
    /\ lastOp' = "mergeScan"
    /\ merges' = merges + 1
    /\ UNCHANGED <<nextId, queryVars, detectVars, uiVars>>

Next == LoadFile(SurveyFiles) \/ MergeFile(SurveyFiles) \/ MergeCurrent

Spec == Init /\ [][Next]_vars

\* store.mergeScan called once more with the NmapScan object of the call
\* before, as that call left it
MergeAgain ==
    /\ ~scan.isNull
    /\ ~handedIn.isNull
    /\ merges < MaxMerges
    /\ scan' = mergeScan(scan, handedIn)
    /\ incoming' = handedIn
    /\ handedIn' = [handedIn EXCEPT !.hosts = hostsAfterMerge(scan.hosts, @)]
    /\ lastOp' = "mergeScanAgain"
    /\ merges' = merges + 1
    /\ UNCHANGED <<nextId, queryVars, detectVars, uiVars>>

SpecRemerge == Init /\ [][Next \/ MergeAgain]_vars

NextDetail == LoadFile(DetailFiles) \/ MergeFile(DetailFiles) \/ MergeCurrent

SpecDetail == Init /\ [][NextDetail]_vars

\* files of one host whose port and host carry NSE script results
ScriptXmlHosts ==
    XmlHostNodes(
        {<<[addr |-> "10.0.0.1", addrtype |-> "ipv4"]>>},
        {[present |-> TRUE, state |-> "up"]},
        [portid : {22}, protocol : {"tcp"},
         state : {XmlState("open", "syn-ack")},
         service : {XmlService("OpenSSH", 3)},
         script : {<<>>,
                   <<[id |-> "banner", output |-> "v1"]>>,
                   <<[id |-> "banner", output |-> "v2"]>>,
                   <<[id |-> "ssh-hostkey", output |-> "k1"]>>,
                   <<[id |-> "banner", output |-> "v2"], [id |-> "ssh-hostkey", output |-> "k1"]>>,
                   <<[id |-> "ssh-hostkey", output |-> "k2"], [id |-> "banner", output |-> "v1"]>>}],
        {<<>>,
         <<[id |-> "smb-os", output |-> "w1"]>>,
         <<[id |-> "smb-os", output |-> "w2"]>>,
         <<[id |-> "nbstat", output |-> "x1"]>>,
         <<[id |-> "smb-os", output |-> "w2"], [id |-> "nbstat", output |-> "x1"]>>})

ScriptFiles == {File("xml", d) : d \in SeqsUpTo(ScriptXmlHosts, 1)}

NextScripts == LoadFile(ScriptFiles) \/ MergeFile(ScriptFiles) \/ MergeCurrent

SpecScripts == Init /\ [][NextScripts]_vars

(***************************************************************************)
(* The greppable parser on its own, over lines with and without the        *)
(* "Status: Up" token and with port entries of six and of seven fields;    *)
(* the lines read are kept in `content`.                                   *)
(***************************************************************************)
StatusLines ==
    [ip : {"10.0.0.1"}, hostname : {""}, statusUp : BOOLEAN,
     ports : SeqsUpTo([portid : {22}, state : {"open", "closed", ""},
                       protocol : {"tcp"}, service : {"ssh"}, version : {""},
                       parts : {6, 7}], MaxPorts)]

\* App.loadProjectContent on a greppable file
LoadGreppable ==
    /\ scan.isNull
    /\ \E doc \in SeqsUpTo(StatusLines, MaxHosts) :
        /\ nextId + Len(doc) <= MaxIds
        /\ content' = doc
        /\ LET parsed == parseNmapGreppable(doc, nextId)
           IN  /\ scan' = parsed
               /\ incoming' = parsed
               /\ handedIn' = parsed
               /\ nextId' = nextId + Len(parsed.hosts)
    /\ lastOp' = "setScan"
    /\ merges' = 0
    /\ UNCHANGED <<outcome, queryVars, uiVars>>

SpecGreppable == Init /\ [][LoadGreppable]_vars

(***************************************************************************)
(* The normal parser on its own, over every short sequence of lines, in    *)
(* nmap's order or not; the lines read are kept in `content`.              *)
(***************************************************************************)
NormalLines ==
    {[Line("report") EXCEPT !.ip = ip] : ip \in {"10.0.0.1", "10.0.0.2"}}
    \cup {[Line("status") EXCEPT !.status = "down"]}
    \cup {Line("header"), Line("blank"), Line("script"), Line("other")}
    \cup {[Line("port") EXCEPT !.portid = 80, !.protocol = "tcp", !.state = "open",
                               !.service = "http"]}

\* App.loadProjectContent on a normal report
LoadNormal ==
    /\ scan.isNull
    /\ \E lines \in SeqsUpTo(NormalLines, MaxLines) :
        /\ nextId + Count(lines, LAMBDA l : l.kind = "report") <= MaxIds
        /\ content' = lines
        /\ LET parsed == parseNmapNormal(lines, nextId)
           IN  /\ scan' = parsed
               /\ incoming' = parsed
               /\ handedIn' = parsed
               /\ nextId' = nextId + Len(parsed.hosts)
    /\ lastOp' = "setScan"
    /\ merges' = 0
    /\ UNCHANGED <<outcome, queryVars, uiVars>>

SpecNormal == Init /\ [][LoadNormal]_vars

(***************************************************************************)
(* Query engine (filterEngine.ts).  Strings are sequences of characters;   *)
(* a host's strings are spelled out by `chars`.  Arrays live in `heap` and *)
(* are passed by reference, so that a call can be seen to change, or not   *)
(* to change, the array it was given.                                      *)
(***************************************************************************)
chars(s) ==
    CASE s = "" -> <<>>
      [] s = "10.0.0.1" -> <<"1", "0", ".", "0", ".", "0", ".", "1">>
      [] s = "10.0.0.2" -> <<"1", "0", ".", "0", ".", "0", ".", "2">>
      [] s = "fe80::1" -> <<"f", "e", "8", "0", ":", ":", "1">>
      [] s = "up" -> <<"u", "p">>
      [] s = "down" -> <<"d", "o", "w", "n">>
      [] s = "unknown" -> <<"u", "n", "k", "n", "o", "w", "n">>
      [] s = "ssh" -> <<"s", "s", "h">>
      [] s = "http" -> <<"h", "t", "t", "p">>
      [] s = "OpenSSH" -> <<"O", "p", "e", "n", "S", "S", "H">>
      [] s = "Dropbear" -> <<"D", "r", "o", "p", "b", "e", "a", "r">>
      [] s = "banner" -> <<"b", "a", "n", "n", "e", "r">>
      [] s = "smb-os" -> <<"s", "m", "b", "-", "o", "s">>
      [] s = "v1" -> <<"v", "1">>
      [] s = "v2" -> <<"v", "2">>
      [] s = "w1" -> <<"w", "1">>
      [] s = "9" -> <<"9">>
      [] s = "10" -> <<"1", "0">>
      [] s = "1a" -> <<"1", "a">>

Digits == <<"0", "1", "2", "3", "4", "5", "6", "7", "8", "9">>
Upper == <<"A", "B", "C", "D", "E", "F", "G", "H", "I", "J", "K", "L", "M",
           "N", "O", "P", "Q", "R", "S", "T", "U", "V", "W", "X", "Y", "Z">>
Lower == <<"a", "b", "c", "d", "e", "f", "g", "h", "i", "j", "k", "l", "m",
           "n", "o", "p", "q", "r", "s", "t", "u", "v", "w", "x", "y", "z">>

indexIn(table, c) == FindIndex(table, LAMBDA x : x = c)

\* String.prototype.toLowerCase
toLowerCase(cs) ==
    [i \in DOMAIN cs |->
        IF indexIn(Upper, cs[i]) > 0 THEN Lower[indexIn(Upper, cs[i])] ELSE cs[i]]

\* String.prototype.trim
RECURSIVE trimStart(_)
trimStart(cs) == IF cs # <<>> /\ Head(cs) = " " THEN trimStart(Tail(cs)) ELSE cs
RECURSIVE trimEnd(_)
trimEnd(cs) ==
    IF cs # <<>> /\ cs[Len(cs)] = " " THEN trimEnd(SubSeq(cs, 1, Len(cs) - 1)) ELSE cs
trim(cs) == trimEnd(trimStart(cs))

\* String.prototype.includes
includes(hay, needle) ==
    \E k \in 0..(Len(hay) - Len(needle)) : SubSeq(hay, k + 1, k + Len(needle)) = needle

\* String(n) for a non-negative integer
RECURSIVE numChars(_)
numChars(n) ==
    IF n < 10 THEN <<Digits[n + 1]>> ELSE numChars(n \div 10) \o <<Digits[(n % 10) + 1]>>

\* a field value is a number or a string
NumVal(n) == [isNum |-> TRUE, n |-> n, s |-> <<>>]
StrVal(cs) == [isNum |-> FALSE, n |-> 0, s |-> cs]

\* String(value)
String(v) == IF v.isNum THEN numChars(v.n) ELSE v.s

\* the value of a string of decimal digits
RECURSIVE digitsValue(_)
digitsValue(cs) ==
    IF cs = <<>> THEN 0
    ELSE 10 * digitsValue(SubSeq(cs, 1, Len(cs) - 1)) + (indexIn(Digits, cs[Len(cs)]) - 1)

\* Number(value): blank strings are 0, digit strings their value, other strings NaN
Number(v) ==
    IF v.isNum THEN [nan |-> FALSE, n |-> v.n]
    ELSE LET t == trim(v.s)
         IN  IF \A i \in DOMAIN t : indexIn(Digits, t[i]) > 0
             THEN [nan |-> FALSE, n |-> digitsValue(t)]
             ELSE [nan |-> TRUE, n |-> 0]

\* getFieldValue, for the fields of the model's hosts
getFieldValue(host, field) ==
    CASE field = "ip" -> StrVal(chars(host.ip))
      [] field = "ipv6" -> StrVal(chars(host.ipv6))
      [] field = "hostname" -> StrVal(chars(host.hostname))
      [] field = "status" -> StrVal(chars(host.status.state))
      [] field = "openPortCount" -> NumVal(host.openPortCount)
      [] field = "closedPortCount" -> NumVal(host.closedPortCount)
      [] field = "filteredPortCount" -> NumVal(host.filteredPortCount)
      [] field = "totalPorts" -> NumVal(Len(host.ports))
      [] field = "hostscriptCount" -> NumVal(Len(host.hostscripts))

\* String.prototype.startsWith / endsWith
startsWith(cs, prefix) ==
    Len(prefix) <= Len(cs) /\ SubSeq(cs, 1, Len(prefix)) = prefix
endsWith(cs, suffix) ==
    Len(suffix) <= Len(cs) /\ SubSeq(cs, Len(cs) - Len(suffix) + 1, Len(cs)) = suffix

\* /\([^)]*[+*|][^)]*\)[+*?{]/.test(pattern): a group holding a quantifier or
\* an alternation, followed by a quantifier
rejectsNestedQuantifier(pattern) ==
    \E i, j, k \in DOMAIN pattern :
        /\ i < j /\ j < k /\ k < Len(pattern)
        /\ pattern[i] = "("
        /\ pattern[j] \in {"+", "*", "|"}
        /\ pattern[k] = ")"
        /\ \A m \in (i + 1)..(k - 1) : pattern[m] # ")"
        /\ pattern[k + 1] \in {"+", "*", "?", "{"}

\* /[+*}\?]\s*\\?[dDwWsS.]\s*[+*{]/.test(pattern): two unbounded-quantifier
\* tokens side by side
rejectsAdjacentQuantifiers(pattern) ==
    \E a, b, c \in DOMAIN pattern :
        /\ a < b /\ b < c
        /\ pattern[a] \in {"+", "*", "}", "?"}
        /\ pattern[b] \in {"d", "D", "w", "W", "s", "S", "."}
        /\ pattern[c] \in {"+", "*", "{"}
        /\ \A m \in (b + 1)..(c - 1) : pattern[m] = " "
        /\ \/ \A m \in (a + 1)..(b - 1) : pattern[m] = " "
           \/ /\ a < b - 1
              /\ pattern[b - 1] = "\\"
              /\ \A m \in (a + 1)..(b - 2) : pattern[m] = " "

\* a compiled pattern: a literal, any character, the start of the input, a
\* sequence, or one-or-more repetitions; "invalid" where new RegExp throws
Node(kind, c, kids) == [kind |-> kind, c |-> c, kids |-> kids]
Lit(c) == Node("lit", c, <<>>)
AnyChar == Node("any", "", <<>>)
Cat(kids) == Node("seq", "", kids)
OneOrMore(kid) == Node("plus", "", <<kid>>)
InvalidPattern == Node("invalid", "", <<>>)

\* new RegExp(pattern, 'i'), for the patterns of the model
RegExp(pattern) ==
    CASE pattern = <<"0", ".", "2">> -> Cat(<<Lit("0"), AnyChar, Lit("2")>>)
      [] pattern = <<"(", "1", "+", ")", "+">> -> OneOrMore(OneOrMore(Lit("1")))
      [] pattern = <<".", "+", ".", "+">> -> Cat(<<OneOrMore(AnyChar), OneOrMore(AnyChar)>>)
      [] OTHER -> InvalidPattern

\* the positions at which a match of node that starts after i characters of
\* str can end
RECURSIVE matchEnds(_, _, _)
RECURSIVE seqEnds(_, _, _)
RECURSIVE plusEnds(_, _, _, _)
matchEnds(node, str, i) ==
    CASE node.kind = "lit" ->
            IF i < Len(str) /\ toLowerCase(str)[i + 1] = toLowerCase(<<node.c>>)[1]
            THEN {i + 1} ELSE {}
      [] node.kind = "any" -> IF i < Len(str) THEN {i + 1} ELSE {}
      [] node.kind = "seq" -> seqEnds(node.kids, str, {i})
      [] node.kind = "plus" -> plusEnds(node.kids[1], str, {i}, {})
      [] OTHER -> {}
seqEnds(kids, str, from) ==
    IF kids = <<>> THEN from
    ELSE seqEnds(Tail(kids), str, UNION {matchEnds(Head(kids), str, i) : i \in from})
plusEnds(kid, str, frontier, acc) ==
    LET new == UNION {matchEnds(kid, str, i) : i \in frontier} \ acc
    IN  IF new = {} THEN acc ELSE plusEnds(kid, str, new, acc \cup new)

\* RegExp.prototype.test
regexTest(re, str) == \E i \in 0..Len(str) : matchEnds(re, str, i) # {}

RegexInputLimit == 1000

\* String.prototype.slice(0, n)
slice(cs, n) == SubSeq(cs, 1, IF Len(cs) < n THEN Len(cs) ELSE n)

regexRuleUnchecked(fieldVal, pattern) ==
    LET re == RegExp(pattern)
        testStr == slice(String(fieldVal), RegexInputLimit)
    IN  IF re.kind = "invalid" THEN FALSE ELSE regexTest(re, testStr)

\* case 'regex' of matchesRule: the static checks, then compile and test;
\* the catch turns a failed compile into false
regexRule(fieldVal, pattern) ==
    IF rejectsNestedQuantifier(pattern) THEN FALSE
    ELSE IF rejectsAdjacentQuantifiers(pattern) THEN FALSE
    ELSE LET re == RegExp(pattern)
             testStr == slice(String(fieldVal), RegexInputLimit)
         IN  IF re.kind = "invalid" THEN FALSE ELSE regexTest(re, testStr)

\* matchesRule; in_range is not modelled
matchesRule(host, rule) ==
    LET fieldVal == getFieldValue(host, rule.field)
        strVal == toLowerCase(String(fieldVal))
        ruleVal == toLowerCase(rule.value)
        a == Number(fieldVal)
        b == Number(StrVal(rule.value))
    IN  IF ~rule.enabled THEN TRUE
        ELSE CASE rule.operator = "equals" -> strVal = ruleVal
               [] rule.operator = "not_equals" -> strVal # ruleVal
               [] rule.operator = "contains" -> includes(strVal, ruleVal)
               [] rule.operator = "not_contains" -> ~includes(strVal, ruleVal)
               [] rule.operator = "starts_with" -> startsWith(strVal, ruleVal)
               [] rule.operator = "ends_with" -> endsWith(strVal, ruleVal)
               [] rule.operator = "regex" -> regexRule(fieldVal, rule.value)
               [] rule.operator = "greater_than" -> ~a.nan /\ ~b.nan /\ a.n > b.n
               [] rule.operator = "less_than" -> ~a.nan /\ ~b.nan /\ a.n < b.n
               [] rule.operator = "is_empty" -> strVal = <<>> \/ strVal = <<"0">>
               [] rule.operator = "is_not_empty" -> strVal # <<>> /\ strVal # <<"0">>
               [] OTHER -> TRUE

\* a call's outcome: the heap after it and the reference it returns
Returned(h, ref) == [heap |-> h, ref |-> ref]
Allocated(h, array) == [heap |-> Append(h, array), ref |-> Len(h) + 1]

applyFiltersPerRule(h, hosts, filterGroup) ==
    LET enabledRules == SelectSeq(filterGroup.rules, LAMBDA r : r.enabled)
        keep(host) == \A i \in DOMAIN enabledRules : matchesRule(host, enabledRules[i])
        perRule == [i \in DOMAIN enabledRules |->
                       SelectSeq(h[hosts], LAMBDA host : matchesRule(host, enabledRules[i]))]
    IN  IF Len(filterGroup.rules) = 0 THEN Returned(h, hosts)
        ELSE IF Len(enabledRules) = 0 THEN Returned(h, hosts)
        ELSE IF filterGroup.logic = "AND" THEN Allocated(h, SelectSeq(h[hosts], keep))
        ELSE Allocated(h, Flatten(perRule))

applyFiltersEveryRule(h, hosts, filterGroup) ==
    LET enabledRules == SelectSeq(filterGroup.rules, LAMBDA r : r.enabled)
        keep(host) == \A i \in DOMAIN enabledRules : matchesRule(host, enabledRules[i])
    IN  IF Len(filterGroup.rules) = 0 THEN Returned(h, hosts)
        ELSE IF Len(enabledRules) = 0 THEN Returned(h, hosts)
        ELSE Allocated(h, SelectSeq(h[hosts], keep))

applyFilters(h, hosts, filterGroup) ==
    LET enabledRules == SelectSeq(filterGroup.rules, LAMBDA r : r.enabled)
        keep(host) ==
            IF filterGroup.logic = "AND"
            THEN \A i \in DOMAIN enabledRules : matchesRule(host, enabledRules[i])
            ELSE \E i \in DOMAIN enabledRules : matchesRule(host, enabledRules[i])
    IN  IF Len(filterGroup.rules) = 0 THEN Returned(h, hosts)
        ELSE IF Len(enabledRules) = 0 THEN Returned(h, hosts)
        ELSE Allocated(h, SelectSeq(h[hosts], keep))

\* the strings applySearch looks into, for the fields of the model's hosts
searchedStrings(host) ==
    {chars(host.ip), chars(host.ipv6), chars(host.status.state)}
    \cup UNION {{numChars(host.ports[j].portid),
                 chars(host.ports[j].service.name),
                 chars(host.ports[j].service.product),
                 chars(host.ports[j].service.version)} : j \in DOMAIN host.ports}
    \cup UNION {{chars(host.hostscripts[j].id), chars(host.hostscripts[j].output)}
                    : j \in DOMAIN host.hostscripts}
    \cup UNION {UNION {{chars(host.ports[j].scripts[k].id),
                        chars(host.ports[j].scripts[k].output)}
                          : k \in DOMAIN host.ports[j].scripts} : j \in DOMAIN host.ports}

applySearch(h, hosts, query) ==
    LET q == trim(toLowerCase(query))
        keep(host) == \E str \in searchedStrings(host) : includes(toLowerCase(str), q)
    IN  IF trim(query) = <<>> THEN Returned(h, hosts)
        ELSE Allocated(h, SelectSeq(h[hosts], keep))

\* String.prototype.localeCompare over the model's alphabet: punctuation,
\* then digits, then letters, compared character by character
Alphabet == <<" ", "-", ".", ":">> \o Digits \o Lower
sign(n) == IF n < 0 THEN -1 ELSE IF n > 0 THEN 1 ELSE 0
RECURSIVE localeCompare(_, _)
localeCompare(a, b) ==
    IF a = <<>> /\ b = <<>> THEN 0
    ELSE IF a = <<>> THEN -1
    ELSE IF b = <<>> THEN 1
    ELSE LET d == indexIn(Alphabet, toLowerCase(a)[1]) - indexIn(Alphabet, toLowerCase(b)[1])
         IN  IF d # 0 THEN sign(d) ELSE localeCompare(Tail(a), Tail(b))

\* a.split('.').map(Number), with NaN || 0 and undefined || 0 folded in:
\* the four octets compareIPs uses
RECURSIVE splitDots(_, _)
splitDots(cs, cur) ==
    IF cs = <<>> THEN <<cur>>
    ELSE IF Head(cs) = "." THEN <<cur>> \o splitDots(Tail(cs), <<>>)
    ELSE splitDots(Tail(cs), Append(cur, Head(cs)))

octet(parts, i) ==
    IF i > Len(parts) THEN 0
    ELSE LET n == Number(StrVal(parts[i])) IN IF n.nan THEN 0 ELSE n.n

compareIPs(a, b) ==
    LET aParts == splitDots(a, <<>>)
        bParts == splitDots(b, <<>>)
        differ == {i \in 1..4 : octet(aParts, i) # octet(bParts, i)}
    IN  IF differ = {} THEN 0
        ELSE LET i == CHOOSE i \in differ : \A j \in differ : i <= j
             IN  octet(aParts, i) - octet(bParts, i)

\* the comparator applySorting hands to sort, from sort key k on
RECURSIVE compareHosts(_, _, _, _)
compareHosts(a, b, sorts, k) ==
    IF k > Len(sorts) THEN 0
    ELSE LET sort == sorts[k]
             aVal == getFieldValue(a, sort.field)
             bVal == getFieldValue(b, sort.field)
             dir == IF sort.direction = "asc" THEN 1 ELSE -1
             aNum == Number(aVal)
             bNum == Number(bVal)
             cmp == IF sort.field = "ip" \/ sort.field = "ipv6"
                    THEN compareIPs(String(aVal), String(bVal))
                    ELSE localeCompare(String(aVal), String(bVal))
         IN  IF ~aNum.nan /\ ~bNum.nan
             THEN IF aNum.n # bNum.n THEN (aNum.n - bNum.n) * dir
                  ELSE compareHosts(a, b, sorts, k + 1)
             ELSE IF cmp # 0 THEN cmp * dir
             ELSE compareHosts(a, b, sorts, k + 1)

\* Array.prototype.sort on a short array: insertion sort, each element moved
\* left past the elements that compare greater
insertHost(sorted, x, sorts) ==
    LET stops == {j \in DOMAIN sorted : compareHosts(sorted[j], x, sorts, 1) <= 0}
        at == IF stops = {} THEN 0 ELSE CHOOSE j \in stops : \A m \in stops : m <= j
    IN  SubSeq(sorted, 1, at) \o <<x>> \o SubSeq(sorted, at + 1, Len(sorted))

RECURSIVE sortHosts(_, _, _)
sortHosts(sorted, rest, sorts) ==
    IF rest = <<>> THEN sorted
    ELSE sortHosts(insertHost(sorted, Head(rest), sorts), Tail(rest), sorts)

applySortingInPlace(h, hosts, sorts) ==
    IF Len(sorts) = 0 THEN Returned(h, hosts)
    ELSE Returned([h EXCEPT ![hosts] = sortHosts(<<>>, @, sorts)], hosts)

\* [...hosts].sort(...): the copy is sorted, the copy is returned
applySorting(h, hosts, sorts) ==
    IF Len(sorts) = 0 THEN Returned(h, hosts)
    ELSE Allocated(h, sortHosts(<<>>, h[hosts], sorts))

(***************************************************************************)
(* Query inputs.                                                           *)
(***************************************************************************)
Rule(field, operator, value, enabled) ==
    [field |-> field, operator |-> operator, value |-> value, enabled |-> enabled]

FilterRules ==
    {Rule("status", "equals", <<"U", "P">>, TRUE),
     Rule("openPortCount", "greater_than", <<"0">>, TRUE),
     Rule("filteredPortCount", "is_empty", <<>>, TRUE),
     Rule("ip", "contains", <<"0", ".", "2">>, FALSE)}

FilterGroups == [logic : {"AND", "OR"}, rules : SeqsUpTo(FilterRules, MaxRules)]

SearchQueries == {<<>>, <<" ">>, <<" ", "S", "s", "h">>, <<"0", ".", "0", ".", "1">>}

SortLists ==
    SeqsUpTo([field : {"ip", "status", "openPortCount"}, direction : {"asc", "desc"}],
             MaxSorts)

\* the host arrays a caller may hold: the hosts of a parsed greppable file
QueryHostLists ==
    {parseNmapGreppable(d, 0).hosts : d \in SeqsUpTo(GreppableLines, MaxHosts)}

(***************************************************************************)
(* The query engine as a state machine: a caller holds an array and passes *)
(* it, or what the previous call returned, to the next call.               *)
(***************************************************************************)
InitQuery ==
    /\ scan = NullScan
    /\ incoming = NullScan
    /\ handedIn = NullScan
    /\ lastOp = "init"
    /\ nextId = 0
    /\ merges = 0
    /\ \E hosts \in QueryHostLists : heap = <<hosts>>
    /\ callerRef = 1
    /\ resultRef = 1
    /\ lastQuery = "none"
    /\ queryArg = NoArg
    /\ DetectIdle
    /\ UiIdle

Call(name, out) ==
    /\ heap' = out.heap
    /\ callerRef' = resultRef
    /\ resultRef' = out.ref
    /\ lastQuery' = name
    /\ UNCHANGED <<queryArg, storeVars, detectVars, uiVars>>

ApplyFilters ==
    /\ Len(heap) < MaxArrays
    /\ \E g \in FilterGroups : Call("applyFilters", applyFilters(heap, resultRef, g))

ApplySearch ==
    /\ Len(heap) < MaxArrays
    /\ \E q \in SearchQueries : Call("applySearch", applySearch(heap, resultRef, q))

ApplySorting ==
    /\ Len(heap) < MaxArrays
    /\ \E s \in SortLists : Call("applySorting", applySorting(heap, resultRef, s))

NextQuery == ApplyFilters \/ ApplySearch \/ ApplySorting

SpecQuery == InitQuery /\ [][NextQuery]_vars

(***************************************************************************)
(* applyFilters on its own, over groups that also hold regex rules and     *)
(* disabled rules; the call's group is kept in queryArg.                   *)
(***************************************************************************)
RegexRules ==
    {Rule("ip", "regex", <<"0", ".", "2">>, TRUE),
     Rule("ip", "regex", <<"(", "1", "+", ")", "+">>, TRUE),
     Rule("ip", "regex", <<".", "+", ".", "+">>, TRUE),
     Rule("ip", "regex", <<"[", "1">>, TRUE)}

RuleGroups ==
    [logic : {"AND", "OR"}, rules : SeqsUpTo(FilterRules \cup RegexRules, MaxRules)]

FilterHosts ==
    /\ lastQuery = "none"
    /\ \E g \in RuleGroups :
        LET out == applyFilters(heap, resultRef, g)
        IN  /\ heap' = out.heap
            /\ callerRef' = resultRef
            /\ resultRef' = out.ref
            /\ queryArg' = [NoArg EXCEPT !.group = g]
    /\ lastQuery' = "applyFilters"
    /\ UNCHANGED <<storeVars, detectVars, uiVars>>

SpecFilter == InitQuery /\ [][FilterHosts]_vars

(***************************************************************************)
(* applySorting on its own, over hosts with names: the host table sorted   *)
(* by the keys of state.sorts; the call's sort list is kept in queryArg.   *)
(***************************************************************************)
\* "Host: <ip> (<hostname>) Status: Up" with or without an open port
NamedLines ==
    [ip : {"10.0.0.1"}, hostname : {"9", "10", "1a"}, statusUp : {TRUE},
     ports : SeqsUpTo([portid : {22}, state : {"open"}, protocol : {"tcp"},
                       service : {"ssh"}, version : {""}, parts : {7}], MaxPorts)]

NamedHostLists ==
    {parseNmapGreppable(d, 0).hosts : d \in SeqsUpTo(NamedLines, MaxRows)}

SortKeys == [field : {"hostname", "openPortCount"}, direction : {"asc", "desc"}]

InitSort ==
    /\ StoreIdle
    /\ \E hosts \in NamedHostLists : heap = <<hosts>>
    /\ callerRef = 1
    /\ resultRef = 1
    /\ lastQuery = "none"
    /\ queryArg = NoArg
    /\ DetectIdle
    /\ UiIdle

SortTable ==
    /\ lastQuery = "none"
    /\ \E s \in SeqsUpTo(SortKeys, MaxSorts) :
        \E out \in {applySorting(heap, resultRef, s)} :
            /\ heap' = out.heap
            /\ callerRef' = resultRef
            /\ resultRef' = out.ref
            /\ queryArg' = [NoArg EXCEPT !.sorts = s]
    /\ lastQuery' = "applySorting"
    /\ UNCHANGED <<storeVars, detectVars, uiVars>>

SpecSort == InitSort /\ [][SortTable]_vars

(***************************************************************************)
(* The filteredHosts memo of useAppStore: filter, then search, then sort   *)
(* the hosts of the current scan.                                          *)
(***************************************************************************)
filteredHosts(h, filterGroup, searchQuery, sorts) ==
    IF scan.isNull THEN Allocated(h, <<>>)
    ELSE LET filtered == applyFilters(h, 1, filterGroup)
             searched == applySearch(filtered.heap, filtered.ref, searchQuery)
         IN  applySorting(searched.heap, searched.ref, sorts)

InitPipeline ==
    /\ \E sc \in {NullScan} \cup {parseNmapGreppable(d, 0) : d \in SeqsUpTo(GreppableLines, MaxHosts)} :
        /\ scan = sc
        /\ incoming = sc
        /\ handedIn = sc
        /\ nextId = Len(sc.hosts)
        /\ heap = IF sc.isNull THEN <<>> ELSE <<sc.hosts>>
        /\ callerRef = IF sc.isNull THEN 0 ELSE 1
        /\ resultRef = IF sc.isNull THEN 0 ELSE 1
    /\ lastOp = "setScan"
    /\ merges = 0
    /\ lastQuery = "none"
    /\ queryArg = NoArg
    /\ DetectIdle
    /\ UiIdle

FilteredHosts ==
    /\ lastQuery = "none"
    /\ \E g \in FilterGroups, q \in SearchQueries, s \in {l \in SortLists : Len(l) <= 1} :
        \E out \in {filteredHosts(heap, g, q, s)} :
            /\ heap' = out.heap
            /\ resultRef' = out.ref
            /\ queryArg' = [group |-> g, query |-> q, sorts |-> s]
    /\ lastQuery' = "filteredHosts"
    /\ UNCHANGED <<callerRef, storeVars, detectVars, uiVars>>

SpecPipeline == InitPipeline /\ [][FilteredHosts]_vars

(***************************************************************************)
(* Format detection (parseNmapOutput).  A text is a sequence of chunks:    *)
(* white space, the markers the detector looks for, another XML element,   *)
(* or other words.                                                         *)
(***************************************************************************)
MaxChunks == 3

Chunks ==
    {" ", "<?xml", "<nmaprun", "# Nmap", "Host:", "Nmap scan report for",
     "Starting Nmap", "<other/>", "words"}

Texts == SeqsUpTo(Chunks, MaxChunks)

UnrecognizedMessage ==
    "Unrecognized nmap output format. Supported formats: XML (-oX), Greppable (-oG), Normal (-oN)"
MissingRootMessage == "Invalid Nmap XML: missing <nmaprun> root element"

Parsed(rule, parser) == [rule |-> rule, parser |-> parser, threw |-> FALSE, message |-> ""]
Thrown(rule, parser, message) ==
    [rule |-> rule, parser |-> parser, threw |-> TRUE, message |-> message]

textStartsWith(text, marker) == text # <<>> /\ Head(text) = marker
textIncludes(text, marker) == \E i \in DOMAIN text : text[i] = marker

\* parseNmapXML up to the check of the root element
xmlRoot(text, rule) ==
    IF textIncludes(text, "<nmaprun") THEN Parsed(rule, "xml")
    ELSE Thrown(rule, "xml", MissingRootMessage)

detectFormatNormalFirst(text) ==
    LET trimmed == trim(text)
    IN  IF textStartsWith(trimmed, "<?xml") \/ textStartsWith(trimmed, "<nmaprun")
        THEN xmlRoot(trimmed, "a")
        ELSE IF textIncludes(trimmed, "Nmap scan report for")
                \/ textStartsWith(trimmed, "Starting Nmap")
        THEN Parsed("c", "normal")
        ELSE IF textStartsWith(trimmed, "# Nmap") \/ textStartsWith(trimmed, "Host:")
        THEN Parsed("b", "greppable")
        ELSE LET tried == xmlRoot(trimmed, "d")
             IN  IF tried.threw THEN Thrown("d", "xml", UnrecognizedMessage) ELSE tried

\* parseNmapOutput: the cascade that picks the parser
detectFormat(text) ==
    LET trimmed == trim(text)
    IN  IF textStartsWith(trimmed, "<?xml") \/ textStartsWith(trimmed, "<nmaprun")
        THEN xmlRoot(trimmed, "a")
        ELSE IF textStartsWith(trimmed, "# Nmap") \/ textStartsWith(trimmed, "Host:")
        THEN Parsed("b", "greppable")
        ELSE IF textIncludes(trimmed, "Nmap scan report for")
                \/ textStartsWith(trimmed, "Starting Nmap")
        THEN Parsed("c", "normal")
        ELSE LET tried == xmlRoot(trimmed, "d")
             IN  IF tried.threw THEN Thrown("d", "xml", UnrecognizedMessage) ELSE tried

InitDetect ==
    /\ StoreIdle
    /\ QueryIdle
    /\ UiIdle
    /\ content \in Texts
    /\ outcome = NoOutcome

ParseText ==
    /\ outcome = NoOutcome
    /\ outcome' = detectFormat(content)
    /\ UNCHANGED <<content, storeVars, queryVars, uiVars>>

SpecDetect == InitDetect /\ [][ParseText]_vars

(***************************************************************************)
(* Notes, the note editor and auto-save (useAppStore, NoteEditor, storage).*)
(* Every action is a handler together with the effect that runs after the  *)
(* render it causes.                                                       *)
(***************************************************************************)
MaxRevisions == 2  \* revisions of one note

ViewModes == {"dashboard", "hosts", "notes"}

\* the ids generateId hands to new notes
NoteIds == {"n1"}
Note(i, rev) == [id |-> i, rev |-> rev]

noteIndex(ns, i) == FindIndex(ns, LAMBDA n : n.id = i)

\* the note lists a project file may carry
ImportedNotes == {<<>>, <<Note("n1", 1)>>}

\* the scan a session with notes works on
NotesScan == parseNmapGreppable(<<>>, 0)

\* the projectId memo of useAppStore
projectId(sc, name, start) ==
    IF sc.isNull \/ name = "" THEN NoProject ELSE generateProjectId(name, start)

\* createDebouncedSave: the pending timeout is dropped and a new one set
debouncedSave(pid, ns) == [armed |-> TRUE, projectId |-> pid, notes |-> ns]

\* the auto-save effect, run after a render in which state.notes or
\* projectId changed
autoSaveEffect(pid, initialized, ns, tm) ==
    IF pid = NoProject THEN tm
    ELSE IF ~initialized THEN tm
    ELSE debouncedSave(pid, ns)

\* the view the editor gives way to: prev.previousViewMode || 'notes'
viewAfterEditor(prev) == IF prev = "null" THEN "notes" ELSE prev

\* previousViewMode as openNoteEditor and editNote set it
rememberedView(view, prev) == IF view # "notes" THEN view ELSE prev

\* the change the user made last to the notes of the current project
noteChange(pid, ns) ==
    IF pid = NoProject THEN latestNotes
    ELSE [latestNotes EXCEPT ![pid] = [changed |-> TRUE, notes |-> ns]]

InitNotes ==
    /\ StoreIdle
    /\ QueryIdle
    /\ DetectIdle
    /\ UiIdle

storeFrame == UNCHANGED <<incoming, handedIn, lastOp, nextId, merges, queryVars, detectVars>>

\* setScan, with the loadSavedNotes call it ends with
SetScan ==
    \E f \in NoteFiles :
        /\ scan' = NotesScan
        /\ fileName' = f.name
        /\ scanStart' = f.start
        /\ viewMode' = "dashboard"
        /\ notes' = <<>>
        /\ editingNoteId' = "null"
        /\ showNoteEditor' = FALSE
        /\ previousViewMode' = "null"
        /\ notesInitialized' = FALSE
        /\ IF skipAutoLoad
           THEN skipAutoLoad' = FALSE /\ loads' = loads
           ELSE skipAutoLoad' = FALSE /\ loads' = loads \cup {generateProjectId(f.name, f.start)}
        /\ timer' = autoSaveEffect(generateProjectId(f.name, f.start), FALSE, <<>>, timer)
        /\ openedFrom' = "null"
        /\ lastUi' = "setScan"
        /\ UNCHANGED <<savedNotes, latestNotes>>
        /\ storeFrame

\* setScanWithNotes: a project file brings its notes along
SetScanWithNotes ==
    \E f \in NoteFiles, ns \in ImportedNotes :
        /\ scan' = NotesScan
        /\ fileName' = f.name
        /\ scanStart' = f.start
        /\ viewMode' = "dashboard"
        /\ notes' = ns
        /\ editingNoteId' = "null"
        /\ showNoteEditor' = FALSE
        /\ previousViewMode' = "null"
        /\ skipAutoLoad' = TRUE
        /\ notesInitialized' = (Len(ns) > 0)
        /\ timer' = autoSaveEffect(generateProjectId(f.name, f.start), Len(ns) > 0, ns, timer)
        /\ openedFrom' = "null"
        /\ latestNotes' = [latestNotes EXCEPT ![generateProjectId(f.name, f.start)] = Unchanged]
        /\ lastUi' = "setScanWithNotes"
        /\ UNCHANGED <<savedNotes, loads>>
        /\ storeFrame

\* loadSavedNotes after its await: the notes read from IndexedDB are
\* installed when there are any
LoadCompletes ==
    \E pid \in loads :
        /\ loads' = loads \ {pid}
        /\ IF Len(savedNotes[pid]) > 0
           THEN /\ notes' = savedNotes[pid]
                /\ notesInitialized' = TRUE
                /\ timer' = autoSaveEffect(projectId(scan, fileName, scanStart), TRUE,
                                           savedNotes[pid], timer)
           ELSE UNCHANGED <<notes, notesInitialized, timer>>
        /\ lastUi' = "loadSavedNotes"
        /\ UNCHANGED <<scan, fileName, scanStart, viewMode, previousViewMode, showNoteEditor,
                       editingNoteId, skipAutoLoad, savedNotes, openedFrom, latestNotes>>
        /\ storeFrame

\* reset: back to initialState
Reset ==
    /\ ~scan.isNull
    /\ scan' = NullScan
    /\ fileName' = ""
    /\ scanStart' = 0
    /\ viewMode' = "dashboard"
    /\ notes' = <<>>
    /\ editingNoteId' = "null"
    /\ showNoteEditor' = FALSE
    /\ previousViewMode' = "null"
    /\ notesInitialized' = FALSE
    /\ openedFrom' = "null"
    /\ lastUi' = "reset"
    /\ UNCHANGED <<skipAutoLoad, timer, savedNotes, loads, latestNotes>>
    /\ storeFrame

\* the sidebar: setViewMode
SetViewMode ==
    /\ ~scan.isNull
    /\ \E v \in ViewModes : viewMode' = v
    /\ lastUi' = "setViewMode"
    /\ UNCHANGED <<scan, previousViewMode, showNoteEditor, editingNoteId, notes, fileName,
                   scanStart, notesInitialized, skipAutoLoad, timer, savedNotes, loads,
                   openedFrom, latestNotes>>
    /\ storeFrame

editorOpens(noteId) ==
    /\ previousViewMode' = rememberedView(viewMode, previousViewMode)
    /\ viewMode' = "notes"
    /\ showNoteEditor' = TRUE
    /\ editingNoteId' = noteId
    /\ openedFrom' = IF viewMode # "notes" THEN viewMode
                     ELSE IF showNoteEditor THEN openedFrom ELSE "null"
    /\ UNCHANGED <<scan, notes, fileName, scanStart, notesInitialized, skipAutoLoad, timer,
                   savedNotes, loads, latestNotes>>
    /\ storeFrame

\* openNoteEditor: a new note
OpenNoteEditor ==
    /\ ~scan.isNull
    /\ editorOpens("null")
    /\ lastUi' = "openNoteEditor"

\* editNote: a note of the list
EditNote ==
    /\ ~scan.isNull
    /\ \E i \in DOMAIN notes : editorOpens(notes[i].id)
    /\ lastUi' = "editNote"

\* addNote
addNote(st, note) ==
    [st EXCEPT !.notes = Append(@, note),
               !.viewMode = viewAfterEditor(st.previousViewMode),
               !.showNoteEditor = FALSE,
               !.editingNoteId = "null",
               !.previousViewMode = "null"]

\* updateNote
updateNote(st, note) ==
    [st EXCEPT !.notes = [i \in DOMAIN @ |-> IF @[i].id = note.id THEN note ELSE @[i]],
               !.viewMode = viewAfterEditor(st.previousViewMode),
               !.showNoteEditor = FALSE,
               !.editingNoteId = "null",
               !.previousViewMode = "null"]

\* closeNoteEditor
closeNoteEditor(st) ==
    [st EXCEPT !.viewMode = viewAfterEditor(st.previousViewMode),
               !.showNoteEditor = FALSE,
               !.editingNoteId = "null",
               !.previousViewMode = "null"]

\* the fields of AppState the editor's handlers write
editorState ==
    [notes |-> notes, viewMode |-> viewMode, showNoteEditor |-> showNoteEditor,
     editingNoteId |-> editingNoteId, previousViewMode |-> previousViewMode]

\* NoteEditor.handleSave: updateNote or addNote, then onClose(), which is
\* closeNoteEditor
handleSave(st, existing, note) ==
    closeNoteEditor(IF existing THEN updateNote(st, note) ELSE addNote(st, note))

editorWrites(st) ==
    /\ notes' = st.notes
    /\ viewMode' = st.viewMode
    /\ showNoteEditor' = st.showNoteEditor
    /\ editingNoteId' = st.editingNoteId
    /\ previousViewMode' = st.previousViewMode
    /\ openedFrom' = "null"

\* the Save button of the editor, which NotesView renders while the Notes
\* view is shown and the editor is open
SaveNote ==
    /\ ~scan.isNull
    /\ viewMode = "notes"
    /\ showNoteEditor
    /\ LET at == noteIndex(notes, editingNoteId)
           existing == editingNoteId # "null" /\ at > 0
       IN  \E note \in IF existing
                       THEN {Note(editingNoteId, r) : r \in {notes[at].rev + 1} \cap 1..MaxRevisions}
                       ELSE {Note(i, 1) : i \in {j \in NoteIds : noteIndex(notes, j) = 0}} :
              LET st == handleSave(editorState, existing, note)
              IN  /\ editorWrites(st)
                  /\ notesInitialized' = TRUE
                  /\ timer' = autoSaveEffect(projectId(scan, fileName, scanStart), TRUE,
                                             st.notes, timer)
                  /\ latestNotes' = noteChange(projectId(scan, fileName, scanStart), st.notes)
    /\ lastUi' = "saveNote"
    /\ UNCHANGED <<scan, fileName, scanStart, skipAutoLoad, savedNotes, loads>>
    /\ storeFrame

\* Escape, or the editor's Cancel button: closeNoteEditor
CloseNoteEditor ==
    /\ showNoteEditor
    /\ editorWrites(closeNoteEditor(editorState))
    /\ lastUi' = "closeNoteEditor"
    /\ UNCHANGED <<scan, fileName, scanStart, notesInitialized, skipAutoLoad, timer,
                   savedNotes, loads, latestNotes>>
    /\ storeFrame

\* deleteNote
DeleteNote ==
    /\ ~scan.isNull
    /\ \E i \in DOMAIN notes :
        LET ns == SelectSeq(notes, LAMBDA n : n.id # notes[i].id)
        IN  /\ notes' = ns
            /\ timer' = autoSaveEffect(projectId(scan, fileName, scanStart), TRUE, ns, timer)
            /\ latestNotes' = noteChange(projectId(scan, fileName, scanStart), ns)
    /\ notesInitialized' = TRUE
    /\ lastUi' = "deleteNote"
    /\ UNCHANGED <<scan, fileName, scanStart, viewMode, previousViewMode, showNoteEditor,
                   editingNoteId, skipAutoLoad, savedNotes, loads, openedFrom>>
    /\ storeFrame

\* setNotes
SetNotes ==
    /\ ~scan.isNull
    /\ \E ns \in ImportedNotes :
        /\ notes' = ns
        /\ timer' = autoSaveEffect(projectId(scan, fileName, scanStart), TRUE, ns, timer)
        /\ latestNotes' = noteChange(projectId(scan, fileName, scanStart), ns)
    /\ notesInitialized' = TRUE
    /\ lastUi' = "setNotes"
    /\ UNCHANGED <<scan, fileName, scanStart, viewMode, previousViewMode, showNoteEditor,
                   editingNoteId, skipAutoLoad, savedNotes, loads, openedFrom>>
    /\ storeFrame

\* the debounce elapses: saveNotes(projectId, notes) of the closure runs
TimerFires ==
    /\ timer.armed
    /\ savedNotes' = [savedNotes EXCEPT ![timer.projectId] = timer.notes]
    /\ timer' = NoTimer
    /\ lastUi' = "saveNotes"
    /\ UNCHANGED <<scan, fileName, scanStart, viewMode, previousViewMode, showNoteEditor,
                   editingNoteId, notes, notesInitialized, skipAutoLoad, loads, openedFrom,
                   latestNotes>>
    /\ storeFrame

NextNotes ==
    \/ SetScan
    \/ SetScanWithNotes
    \/ LoadCompletes
    \/ Reset
    \/ SetViewMode
    \/ OpenNoteEditor
    \/ EditNote
    \/ SaveNote
    \/ CloseNoteEditor
    \/ DeleteNote
    \/ SetNotes
    \/ TimerFires

SpecNotes == InitNotes /\ [][NextNotes]_vars

(***************************************************************************)
(* Properties.                                                             *)
(***************************************************************************)
\* the step just taken was a mergeScan call: `scan` is the scan before it,
\* incoming' its argument, scan' the scan after it
MergeStep == lastOp' = "mergeScan"

\* host i is the one findIndex returns for its address
firstWithAddr(hosts, i) == \A k \in 1..(i-1) : hostAddr(hosts[k]) # hostAddr(hosts[i])

\* port j is the one find returns for its key
firstWithKey(ports, j) == \A k \in 1..(j-1) : portKey(ports[k]) # portKey(ports[j])

\* the ports of `hosts` at address addr with key `key`, in merge order
portsAt(hosts, addr, key) ==
    SelectSeq(portOccurrences(hosts),
              LAMBDA occ : occ.addr = addr /\ portKey(occ.port) = key)

uniquePortKeys(hosts) ==
    \A i \in DOMAIN hosts : \A j, k \in DOMAIN hosts[i].ports :
        portKey(hosts[i].ports[j]) = portKey(hosts[i].ports[k]) => j = k

\* C1: when mergeScan meets exactly one incoming port for the key of an
\* existing port and both carry a service, the existing port ends with the
\* incoming service if the incoming conf is strictly greater and with its own
\* service otherwise.
C1_ServiceReplacedIffHigherConf ==
    [][MergeStep =>
        \A i \in DOMAIN scan.hosts : \A j \in DOMAIN scan.hosts[i].ports :
            LET e == scan.hosts[i].ports[j]
                m == portsAt(incoming'.hosts, hostAddr(scan.hosts[i]), portKey(e))
            IN  ( /\ firstWithAddr(scan.hosts, i)
                  /\ firstWithKey(scan.hosts[i].ports, j)
                  /\ e.service.present
                  /\ Len(m) = 1
                  /\ m[1].port.service.present )
                => scan'.hosts[i].ports[j].service =
                     IF m[1].port.service.conf > e.service.conf
                     THEN m[1].port.service ELSE e.service]_vars

\* C1 witness: a merge met an incoming service of conf 1 on a port whose
\* service has conf 3, and the port still carries the conf-3 service.
C1_Witness ==
    /\ lastOp = "mergeScan"
    /\ \E i \in DOMAIN scan.hosts : \E j \in DOMAIN scan.hosts[i].ports :
        LET m == portsAt(incoming.hosts, hostAddr(scan.hosts[i]),
                         portKey(scan.hosts[i].ports[j]))
        IN  /\ Len(m) = 1
            /\ m[1].port.service.present /\ m[1].port.service.conf = 1
            /\ scan.hosts[i].ports[j].service.present
            /\ scan.hosts[i].ports[j].service.conf = 3

\* C2: after every mergeScan the rollups uniquePorts and uniqueServices are
\* the aggregator's output for the merged host list.
C2_RollupsFollowMerge ==
    lastOp = "mergeScan" =>
        /\ scan.uniquePorts = computePortSummaries(scan.hosts)
        /\ scan.uniqueServices = computeServiceSummaries(scan.hosts)

\* C3: if no host of the existing scan and no host of the incoming scan has
\* two ports with one (protocol, portid) pair, no host of the merged scan has.
C3_PortKeysStayUnique ==
    [][(MergeStep /\ uniquePortKeys(scan.hosts) /\ uniquePortKeys(incoming'.hosts))
        => uniquePortKeys(scan'.hosts)]_vars

\* C3 witness: a merge of two incoming hosts with one address left a host
\* with two ports.
C3_Witness ==
    /\ lastOp = "mergeScan"
    /\ \E a, b \in DOMAIN incoming.hosts :
        /\ a # b
        /\ hostAddr(incoming.hosts[a]) = hostAddr(incoming.hosts[b])
        /\ incoming.hosts[a].ports # <<>> /\ incoming.hosts[b].ports # <<>>
        /\ \E i \in DOMAIN scan.hosts :
            /\ hostAddr(scan.hosts[i]) = hostAddr(incoming.hosts[a])
            /\ Len(scan.hosts[i].ports) = 2

\* C4: every host of the current scan has openPortCount equal to the number
\* of its ports in state 'open', and its three counts sum to at most ports.length.
C4_OpenCountExact ==
    \A i \in DOMAIN scan.hosts :
        LET h == scan.hosts[i]
        IN  /\ h.openPortCount = Count(h.ports, LAMBDA p : p.state.state = "open")
            /\ h.openPortCount + h.closedPortCount + h.filteredPortCount <= Len(h.ports)

\* C4 witness: after a merge a host has two ports, one of them open.
C4_Witness ==
    /\ lastOp = "mergeScan"
    /\ \E i \in DOMAIN scan.hosts :
        /\ Len(scan.hosts[i].ports) = 2
        /\ scan.hosts[i].openPortCount = 1

\* C5: every host of the current scan has filteredPortCount equal to the
\* number of its ports in state 'filtered' or 'open|filtered'.
C5_FilteredCountExact ==
    \A i \in DOMAIN scan.hosts :
        scan.hosts[i].filteredPortCount =
            Count(scan.hosts[i].ports,
                  LAMBDA p : p.state.state \in {"filtered", "open|filtered"})

\* C6: the scan-level counts of the current scan are those recomputed from
\* its hosts: total, up, down, and every other status as hostsFiltered.
C6_ScanCountsFollowHosts ==
    ~scan.isNull =>
        /\ scan.totalHosts = Len(scan.hosts)
        /\ scan.hostsUp = Count(scan.hosts, LAMBDA h : h.status.state = "up")
        /\ scan.hostsDown = Count(scan.hosts, LAMBDA h : h.status.state = "down")
        /\ scan.hostsFiltered =
             Count(scan.hosts, LAMBDA h : h.status.state \notin {"up", "down"})
        /\ scan.totalHosts = scan.hostsUp + scan.hostsDown + scan.hostsFiltered

\* the incoming hosts mergeScan appends: those whose address no existing host
\* and no earlier incoming host has
appendedBy(old, new) ==
    SelectSeq([k \in DOMAIN new |-> [pos |-> k, host |-> new[k]]],
              LAMBDA e : /\ \A i \in DOMAIN old : hostAddr(old[i]) # hostAddr(e.host)
                         /\ \A m \in 1..(e.pos - 1) : hostAddr(new[m]) # hostAddr(e.host))

\* C7: the merged host list is the existing list, same ids in the same order,
\* followed by the incoming hosts with a new address, in incoming order with
\* their own ids; such a host is unchanged unless a later incoming host shares
\* its address.
C7_AppendOnlyInOrder ==
    [][MergeStep =>
        LET old == scan.hosts
            new == incoming'.hosts
            res == scan'.hosts
            app == appendedBy(old, new)
        IN  /\ Len(res) = Len(old) + Len(app)
            /\ \A i \in DOMAIN old :
                res[i].id = old[i].id /\ hostAddr(res[i]) = hostAddr(old[i])
            /\ \A k \in DOMAIN app :
                /\ res[Len(old) + k].id = app[k].host.id
                /\ (\A m \in DOMAIN new :
                        hostAddr(new[m]) = hostAddr(app[k].host) => m = app[k].pos)
                   => res[Len(old) + k] = app[k].host]_vars

\* C7 witness: a merge of two incoming hosts appended one (its id is in the
\* scan, last) and folded the other into an existing host.
C7_Witness ==
    /\ lastOp = "mergeScan"
    /\ Len(incoming.hosts) = 2
    /\ Len(scan.hosts) = 2
    /\ scan.hosts[2].id = incoming.hosts[2].id
    /\ scan.hosts[1].id # incoming.hosts[1].id
    /\ hostAddr(scan.hosts[1]) = hostAddr(incoming.hosts[1])

portSet(h) == {h.ports[j] : j \in DOMAIN h.ports}
scriptSet(scripts) == {scripts[j] : j \in DOMAIN scripts}

\* C8: merging the current scan into itself adds no host and leaves every
\* host's set of ports and every host's and port's set of scripts as it was.
C8_SelfMergeChangesNothing ==
    [][(MergeStep /\ incoming' = scan) =>
        /\ Len(scan'.hosts) = Len(scan.hosts)
        /\ \A i \in DOMAIN scan.hosts :
            /\ portSet(scan'.hosts[i]) = portSet(scan.hosts[i])
            /\ scriptSet(scan'.hosts[i].hostscripts) = scriptSet(scan.hosts[i].hostscripts)]_vars

\* the (host, port) occurrences of one (portid, protocol, state) combination
occurrencesOf(hosts, key) ==
    SelectSeq(portOccurrences(hosts), LAMBDA occ : summaryKey(occ.port) = key)

\* C9: computePortSummaries has exactly one entry per (portid, protocol,
\* state) combination among the hosts' ports; its count is the number of
\* occurrences and the length of its hosts list, which holds the address of
\* each occurrence; entries ascend by port number.
C9_PortSummariesExact ==
    LET hosts == scan.hosts
        sums == computePortSummaries(hosts)
        occs == portOccurrences(hosts)
    IN  /\ \A k \in DOMAIN occs : \E e \in DOMAIN sums :
            <<sums[e].port, sums[e].protocol, sums[e].state>> = summaryKey(occs[k].port)
        /\ \A e, f \in DOMAIN sums :
            <<sums[e].port, sums[e].protocol, sums[e].state>>
              = <<sums[f].port, sums[f].protocol, sums[f].state>> => e = f
        /\ \A e \in DOMAIN sums :
            LET mine == occurrencesOf(hosts, <<sums[e].port, sums[e].protocol, sums[e].state>>)
            IN  /\ Len(mine) >= 1
                /\ sums[e].count = Len(mine)
                /\ Len(sums[e].hosts) = sums[e].count
                /\ sums[e].hosts = [k \in DOMAIN mine |-> mine[k].addr]
        /\ \A e, f \in DOMAIN sums : e < f => sums[e].port <= sums[f].port

\* C9 witness: the current hosts give a summary with an entry counted twice
\* and entries the sort had to reorder (port 80 seen before port 22).
C9_Witness ==
    LET sums == computePortSummaries(scan.hosts)
        occs == portOccurrences(scan.hosts)
    IN  /\ \E e \in DOMAIN sums : sums[e].count = 2
        /\ \E k, l \in DOMAIN occs : k < l /\ occs[k].port.portid > occs[l].port.portid

\* C10: no call of applyFilters, applySearch or applySorting changes an array
\* that existed before the call; the array it was given holds the same hosts
\* in the same order afterwards.
C10_QueriesLeaveInputAlone ==
    [][\A r \in DOMAIN heap : r \in DOMAIN heap' /\ heap'[r] = heap[r]]_vars

\* C10 witness: applySorting returned the hosts in another order than the
\* array it was given, which still holds them in the order it had.
C10_Witness ==
    /\ lastQuery = "applySorting"
    /\ resultRef # callerRef
    /\ Len(heap[resultRef]) = Len(heap[callerRef])
    /\ heap[resultRef] # heap[callerRef]

\* C11: the hosts filteredHosts returns are hosts of the current scan, none
\* of them more often than the scan holds it.
C11_PipelineAddsNoHost ==
    lastQuery = "filteredHosts" =>
        LET out == heap[resultRef]
        IN  \A i \in DOMAIN out :
                Count(out, LAMBDA x : x = out[i]) <= Count(scan.hosts, LAMBDA x : x = out[i])

\* C11 witness: filter, search and sort each built an array of their own and
\* one of the scan's two hosts came through.
C11_Witness ==
    /\ lastQuery = "filteredHosts"
    /\ Len(heap) = 4
    /\ Len(scan.hosts) = 2
    /\ Len(heap[resultRef]) = 1

\* the hosts of the input that match every rule (AND) or some rule (OR)
matching(hosts, logic, rules) ==
    SelectSeq(hosts, LAMBDA host :
        IF logic = "AND"
        THEN \A i \in DOMAIN rules : matchesRule(host, rules[i])
        ELSE \E i \in DOMAIN rules : matchesRule(host, rules[i]))

\* C12: with every rule enabled applyFilters returns, in input order, the
\* hosts matching all rules (AND) or at least one rule (OR); with no rule, or
\* no enabled rule, it returns the input array itself.
C12_FilterLogic ==
    lastQuery = "applyFilters" =>
        LET g == queryArg.group
        IN  /\ (\A i \in DOMAIN g.rules : ~g.rules[i].enabled) =>
                 resultRef = callerRef /\ Len(heap) = 1
            /\ (g.rules # <<>> /\ \A i \in DOMAIN g.rules : g.rules[i].enabled) =>
                 heap[resultRef] = matching(heap[callerRef], g.logic, g.rules)

\* C12 witness: an OR group of two enabled rules kept one of two hosts, a
\* host that matches only one of the rules.
C12_Witness ==
    /\ lastQuery = "applyFilters"
    /\ queryArg.group.logic = "OR"
    /\ Len(queryArg.group.rules) = 2
    /\ \A i \in DOMAIN queryArg.group.rules : queryArg.group.rules[i].enabled
    /\ Len(heap[callerRef]) = 2
    /\ Len(heap[resultRef]) = 1
    /\ \E i \in DOMAIN queryArg.group.rules :
            ~matchesRule(heap[resultRef][1], queryArg.group.rules[i])

\* C13: a disabled rule stays in its group as a rule every host matches: the
\* result is that of the group with the disabled rules matching every host.
C13_DisabledRuleAlwaysTrue ==
    (lastQuery = "applyFilters"
     /\ \E i \in DOMAIN queryArg.group.rules : ~queryArg.group.rules[i].enabled) =>
        heap[resultRef] = matching(heap[callerRef], queryArg.group.logic, queryArg.group.rules)

\* the patterns of the model that the static check rejects or that do not compile
RejectedPatterns ==
    {<<"(", "1", "+", ")", "+">>, <<".", "+", ".", "+">>, <<"[", "1">>}

rejectedRule(rule) ==
    rule.enabled /\ rule.operator = "regex" /\ rule.value \in RejectedPatterns

\* C14: an enabled regex rule with a rejected or uncompilable pattern matches
\* no host: under AND the result is empty, and under OR the result holds only
\* hosts that another rule of the group matches.
C14_RejectedPatternMatchesNothing ==
    (lastQuery = "applyFilters"
     /\ \E i \in DOMAIN queryArg.group.rules : rejectedRule(queryArg.group.rules[i])) =>
        LET g == queryArg.group
            others == SelectSeq(g.rules, LAMBDA r : r.enabled /\ ~rejectedRule(r))
        IN  IF g.logic = "AND" THEN heap[resultRef] = <<>>
            ELSE heap[resultRef] = matching(heap[callerRef], "OR", others)

\* C14 witness: an AND group whose rejected pattern would have matched an
\* address of the input, had it been run, returned no host.
C14_Witness ==
    /\ lastQuery = "applyFilters"
    /\ queryArg.group.logic = "AND"
    /\ \E i \in DOMAIN queryArg.group.rules :
        /\ rejectedRule(queryArg.group.rules[i])
        /\ RegExp(queryArg.group.rules[i].value).kind # "invalid"
        /\ \E j \in DOMAIN heap[callerRef] :
              regexTest(RegExp(queryArg.group.rules[i].value), chars(heap[callerRef][j].ip))
    /\ heap[callerRef] # <<>>
    /\ heap[resultRef] = <<>>

\* the text without the white space around it
core(text) == trim(text)
ruleA(text) == textStartsWith(core(text), "<?xml") \/ textStartsWith(core(text), "<nmaprun")
ruleB(text) == textStartsWith(core(text), "# Nmap") \/ textStartsWith(core(text), "Host:")
ruleC(text) ==
    textIncludes(core(text), "Nmap scan report for") \/ textStartsWith(core(text), "Starting Nmap")

\* C15: the parser is picked by the first rule that holds of the trimmed
\* text: XML markers at the start, then greppable markers at the start, then
\* the normal-output markers, and the XML parser when none holds.
C15_FirstRuleWins ==
    outcome # NoOutcome =>
        /\ ruleA(content) => outcome.rule = "a" /\ outcome.parser = "xml"
        /\ (~ruleA(content) /\ ruleB(content)) =>
              outcome.rule = "b" /\ outcome.parser = "greppable"
        /\ (~ruleA(content) /\ ~ruleB(content) /\ ruleC(content)) =>
              outcome.rule = "c" /\ outcome.parser = "normal"
        /\ (~ruleA(content) /\ ~ruleB(content) /\ ~ruleC(content)) =>
              outcome.rule = "d" /\ outcome.parser = "xml"

\* C15 witness: a text that starts like greppable output and holds a normal
\* report line went to the greppable parser.
C15_Witness ==
    /\ outcome # NoOutcome
    /\ ruleB(content)
    /\ ruleC(content)
    /\ outcome.parser = "greppable"

\* C16: every error parseNmapOutput raises carries the message that names
\* the supported formats.
C16_ErrorNamesFormats ==
    outcome.threw => outcome.message = UnrecognizedMessage

\* a step in which the open editor is closed by Save or by Cancel/Escape
EditorCloses == showNoteEditor /\ lastUi' \in {"saveNote", "closeNoteEditor"}

\* C17: when the editor was opened from a view other than Notes, saving or
\* closing it brings back that view; opened from Notes with nothing
\* remembered, the view stays Notes.
C17_ViewRestored ==
    [][EditorCloses =>
          viewMode' = IF openedFrom = "null" THEN "notes" ELSE openedFrom]_vars

\* C18: once no save is pending and no load is under way, the notes each
\* project was last changed to are the notes saved for it.
C18_LatestNotesSaved ==
    (~timer.armed /\ loads = {}) =>
        \A p \in ProjectIds : latestNotes[p].changed => savedNotes[p] = latestNotes[p].notes

scriptIds(scripts) == {scripts[i].id : i \in DOMAIN scripts}

distinctIds(scripts) ==
    \A k, l \in DOMAIN scripts : scripts[k].id = scripts[l].id => k = l

unseenIn(old, inc) == SelectSeq(inc, LAMBDA s : s.id \notin scriptIds(old))

\* C19: on a port matched by exactly one incoming port, the scripts after
\* the merge are the existing ones, each replaced in place by the incoming
\* script of its id if there is one, followed by the incoming scripts of ids
\* the port did not have.
C19_PortScriptsOverwritten ==
    [][MergeStep =>
        \A i \in DOMAIN scan.hosts : \A j \in DOMAIN scan.hosts[i].ports :
            LET old == scan.hosts[i].ports[j].scripts
                m == portsAt(incoming'.hosts, hostAddr(scan.hosts[i]),
                             portKey(scan.hosts[i].ports[j]))
            IN  ( /\ firstWithAddr(scan.hosts, i)
                  /\ firstWithKey(scan.hosts[i].ports, j)
                  /\ distinctIds(old)
                  /\ Len(m) = 1
                  /\ distinctIds(m[1].port.scripts) )
                => LET inc == m[1].port.scripts
                       new == scan'.hosts[i].ports[j].scripts
                   IN  /\ Len(new) = Len(old) + Len(unseenIn(old, inc))
                       /\ \A k \in DOMAIN old :
                            new[k] = IF old[k].id \in scriptIds(inc)
                                     THEN inc[CHOOSE l \in DOMAIN inc : inc[l].id = old[k].id]
                                     ELSE old[k]
                       /\ SubSeq(new, Len(old) + 1, Len(new)) = unseenIn(old, inc)]_vars

\* C19 witness: a port holding banner and ssh-hostkey "k2" was merged with a
\* port holding only banner "v2": banner is "v2" in its old place and
\* ssh-hostkey is as it was; no file of the model holds this list.
C19_Witness ==
    /\ lastOp = "mergeScan"
    /\ Len(scan.hosts) = 1
    /\ Len(scan.hosts[1].ports) = 1
    /\ Len(incoming.hosts) = 1
    /\ Len(incoming.hosts[1].ports) = 1
    /\ incoming.hosts[1].ports[1].scripts = <<[id |-> "banner", output |-> "v2"]>>
    /\ scan.hosts[1].ports[1].scripts =
          <<[id |-> "banner", output |-> "v2"], [id |-> "ssh-hostkey", output |-> "k2"]>>

\* the host scripts of the hosts of `hosts` at address addr, in merge order
hostScriptsAt(hosts, addr) ==
    Flatten([i \in DOMAIN hosts |->
                IF hostAddr(hosts[i]) = addr THEN hosts[i].hostscripts ELSE <<>>])

\* C20: on a matched host the existing host scripts stay as they are, and
\* the incoming host scripts of ids the host did not have follow them.
C20_HostScriptsAppendOnly ==
    [][MergeStep =>
        \A i \in DOMAIN scan.hosts :
            ( /\ firstWithAddr(scan.hosts, i)
              /\ Count(incoming'.hosts, LAMBDA h : hostAddr(h) = hostAddr(scan.hosts[i])) = 1 )
            => LET old == scan.hosts[i].hostscripts
                   inc == hostScriptsAt(incoming'.hosts, hostAddr(scan.hosts[i]))
               IN  scan'.hosts[i].hostscripts = old \o unseenIn(old, inc)]_vars

\* C20 witness: a host with smb-os "w1" met an incoming host with smb-os "w2"
\* and nbstat, and now has smb-os "w1", then nbstat.
C20_Witness ==
    /\ lastOp = "mergeScan"
    /\ Len(scan.hosts) = 1
    /\ Len(incoming.hosts) = 1
    /\ incoming.hosts[1].hostscripts =
          <<[id |-> "smb-os", output |-> "w2"], [id |-> "nbstat", output |-> "x1"]>>
    /\ scan.hosts[1].hostscripts =
          <<[id |-> "smb-os", output |-> "w1"], [id |-> "nbstat", output |-> "x1"]>>

keyOrder(x, y, sorts, k) == compareHosts(x, y, <<[sorts[k] EXCEPT !.direction = "asc"]>>, 1)

\* x belongs before y: on the first key on which they compare unequal, x is
\* the smaller one (the greater one if the key's direction is 'desc')
sortsBefore(x, y, sorts) ==
    \E k \in DOMAIN sorts :
        /\ \A m \in 1..(k-1) : keyOrder(x, y, sorts, m) = 0
        /\ IF sorts[k].direction = "asc"
           THEN keyOrder(x, y, sorts, k) < 0
           ELSE keyOrder(x, y, sorts, k) > 0

equalOnEveryKey(x, y, sorts) == \A k \in DOMAIN sorts : keyOrder(x, y, sorts, k) = 0

\* position of the host with this id in an array
rowOf(hosts, id) == CHOOSE p \in DOMAIN hosts : hosts[p].id = id

\* C22: applySorting returns the hosts it was given, no host after a host it
\* belongs before by the first sort key on which the two compare unequal;
\* hosts equal on every key keep their input order; an empty sort list
\* returns the input array.
C22_SortedByFirstUnequalKey ==
    lastQuery = "applySorting" =>
        LET sorts == queryArg.sorts
            given == heap[callerRef]
            out == heap[resultRef]
        IN  /\ sorts = <<>> => resultRef = callerRef
            /\ Len(out) = Len(given)
            /\ {out[p] : p \in DOMAIN out} = {given[p] : p \in DOMAIN given}
            /\ \A p, q \in DOMAIN out : p < q =>
                /\ ~sortsBefore(out[q], out[p], sorts)
                /\ equalOnEveryKey(out[p], out[q], sorts)
                    => rowOf(given, out[p].id) < rowOf(given, out[q].id)

\* C30: on every sort key, the comparison applySorting makes is transitive
\* over the hosts it sorts: if a compares before b and b before c, then a
\* compares before c.
C30_KeyOrderTransitive ==
    lastQuery = "applySorting" =>
        LET sorts == queryArg.sorts
            given == heap[callerRef]
        IN  \A k \in DOMAIN sorts : \A a, b, c \in DOMAIN given :
                ( /\ keyOrder(given[a], given[b], sorts, k) < 0
                  /\ keyOrder(given[b], given[c], sorts, k) < 0 )
                => keyOrder(given[a], given[c], sorts, k) < 0

\* C23: every host the greppable parser returns has status 'up' if its line
\* holds 'Status: Up' or one of the ports parsed from it is 'open', and status
\* 'down' otherwise.
C23_UpIffStatusOrOpenPort ==
    lastOp = "setScan" =>
        /\ Len(scan.hosts) = Len(content)
        /\ \A i \in DOMAIN content :
            LET up == \/ content[i].statusUp
                      \/ \E j \in DOMAIN scan.hosts[i].ports :
                            scan.hosts[i].ports[j].state.state = "open"
            IN  scan.hosts[i].status.state = IF up THEN "up" ELSE "down"

\* C23 witness: a file was parsed with a line that has no 'Status: Up' and an
\* open port, whose host is up, and a line with neither, whose host is down
\* although it lists an 'open' entry of six fields.
C23_Witness ==
    /\ lastOp = "setScan"
    /\ \E i, k \in DOMAIN content :
        /\ ~content[i].statusUp
        /\ scan.hosts[i].openPortCount = 1
        /\ scan.hosts[i].status.state = "up"
        /\ ~content[k].statusUp
        /\ content[k].ports # <<>>
        /\ content[k].ports[1].state = "open"
        /\ scan.hosts[k].ports = <<>>
        /\ scan.hosts[k].status.state = "down"

\* the indices of the report lines, in input order
reportRows(lines) ==
    LET rows == {i \in DOMAIN lines : lines[i].kind = "report"}
    IN  [k \in 1..Cardinality(rows) |->
            CHOOSE i \in rows : Cardinality({j \in rows : j <= i}) = k]

\* the last line of the host opened by report line k
lastRowOf(lines, k) ==
    LET rows == reportRows(lines)
    IN  IF k < Len(rows) THEN rows[k + 1] - 1 ELSE Len(lines)

\* the port lines between report line k and the next one that follow a
\* header line read after report line k
portRowsAfterHeader(lines, k) ==
    LET rows == reportRows(lines)
    IN  {i \in (rows[k] + 1)..lastRowOf(lines, k) :
            /\ lines[i].kind = "port"
            /\ \E h \in (rows[k] + 1)..(i - 1) : lines[h].kind = "header"}

\* C24: parseNmapNormal returns one host per report line, in input order,
\* and a host has at most the port lines that lie between its report line
\* and the next one and follow a header line read after its report line.
C24_OneHostPerReport ==
    lastOp = "setScan" =>
        LET rows == reportRows(content)
        IN  /\ Len(scan.hosts) = Len(rows)
            /\ \A k \in DOMAIN rows :
                /\ scan.hosts[k].ip = content[rows[k]].ip
                /\ Len(scan.hosts[k].ports) <= Cardinality(portRowsAfterHeader(content, k))
                /\ \A j \in DOMAIN scan.hosts[k].ports :
                    \E i \in portRowsAfterHeader(content, k) :
                        scan.hosts[k].ports[j] = normalPort(content[i])

\* C24 witness: report, header, port, report, port was parsed: two hosts in
\* input order, the first with the one port of its table, the second with
\* none although a port line follows its report line.
C24_Witness ==
    /\ lastOp = "setScan"
    /\ Len(content) = 5
    /\ [i \in 1..5 |-> content[i].kind] = <<"report", "header", "port", "report", "port">>
    /\ content[1].ip # content[4].ip
    /\ Len(scan.hosts) = 2
    /\ scan.hosts[1].ip = content[1].ip /\ Len(scan.hosts[1].ports) = 1
    /\ scan.hosts[2].ip = content[4].ip /\ scan.hosts[2].ports = <<>>

\* line i is read inside an open port table: a header line precedes it after
\* the last report line, with only port lines, blank lines, lines starting
\* with '|' and header lines in between
tableOpenAt(lines, i) ==
    \E h \in 1..(i - 1) :
        /\ lines[h].kind = "header"
        /\ \A m \in (h + 1)..(i - 1) : lines[m].kind \in {"port", "blank", "script", "header"}

\* C25: the ports of a host are exactly the port lines of its part of the
\* input that are read inside an open port table, where any line that is
\* no port line, not blank and does not start with '|' closes the table
\* until the next header line.
C25_NonPortLineClosesTable ==
    lastOp = "setScan" =>
        LET rows == reportRows(content)
        IN  \A k \in DOMAIN rows :
                Len(scan.hosts[k].ports) =
                    Cardinality({i \in (rows[k] + 1)..lastRowOf(content, k) :
                        /\ content[i].kind = "port"
                        /\ tableOpenAt(SubSeq(content, rows[k] + 1, lastRowOf(content, k)),
                                       i - rows[k])})

\* C26: after a mergeScan call the scan object handed to it holds the values
\* it held when it was handed in; when the current scan itself was handed in,
\* these are the values of the previously current scan.
C26_MergeLeavesInputsAlone ==
    [][MergeStep => handedIn' = incoming']_vars

\* C27: notes that loadSavedNotes installs were stored under the project
\* id of the scan that is current when they are installed; a load started
\* for an earlier scan never puts its notes into the store of a later one.
C27_LoadedNotesBelongToCurrentScan ==
    [][(lastUi' = "loadSavedNotes" /\ notes' # notes)
         => /\ projectId(scan', fileName', scanStart') # NoProject
            /\ notes' = savedNotes[projectId(scan', fileName', scanStart')]]_vars

\* C28: every setScan finds skipAutoLoad clear and starts a load of the
\* notes saved under the project id of the file it opens.
C28_SetScanStartsLoad ==
    [][lastUi' = "setScan"
         => /\ ~skipAutoLoad
            /\ generateProjectId(fileName', scanStart') \in loads']_vars

\* C29: the hosts of the scan the store holds have pairwise distinct ids,
\* after the parse and after every merge, a repeated merge of the same
\* parsed scan included.
C29_HostIdsUnique ==
    \A i, j \in DOMAIN scan.hosts : scan.hosts[i].id = scan.hosts[j].id => i = j

\* C29 witness: a parsed scan that had added a host to the store was merged
\* a second time, and the store holds its host once.
C29_Witness ==
    /\ lastOp = "mergeScanAgain"
    /\ Len(scan.hosts) >= 2
    /\ \E k \in DOMAIN incoming.hosts :
           /\ \E i \in DOMAIN scan.hosts : i > 1 /\ scan.hosts[i].id = incoming.hosts[k].id
           /\ hostAddr(incoming.hosts[k]) # hostAddr(scan.hosts[1])

====
